---- MODULE Spec2Model ----
(***************************************************************************)
(* Hallucination scoring engine of the vine backend                        *)
(* (backend/layers/hallucination/detector.py), with the embedding gateway  *)
(* it calls (backend/layers/embedding).                                    *)
(*                                                                         *)
(* Texts are sequences of one-character strings.  Real numbers are fixed   *)
(* point: similarities and ratios in thousandths (1.0 is 1000), scores in  *)
(* thousandths of a point (100.0 is 100000).  Embedding vectors are       *)
(* integer vectors whose norms are integers, so that every cosine          *)
(* similarity of the model is exact at this precision.                     *)
(***************************************************************************)
EXTENDS Integers, Sequences, FiniteSets, TLC

\* ------------------------------------------------------------------------
\* Arithmetic
\* ------------------------------------------------------------------------

\* One unit of a ratio (1.0) in thousandths.
One == 10 * 10 * 10

Min(a, b) == IF a <= b THEN a ELSE b

Max(a, b) == IF a >= b THEN a ELSE b

\* a / b rounded to the nearest integer (halves up), b > 0.
RDiv(a, b) == (2 * a + b) \div (2 * b)

RECURSIVE SqrtSearch(_, _, _)
SqrtSearch(x, lo, hi) ==
    IF lo >= hi THEN lo
    ELSE LET mid == (lo + hi + 1) \div 2
         IN  IF mid * mid <= x THEN SqrtSearch(x, mid, hi)
             ELSE SqrtSearch(x, lo, mid - 1)

\* floor(sqrt(x)) for 0 <= x < 2^31
ISqrt(x) == SqrtSearch(x, 0, 46340)

RECURSIVE SumSeq(_)
SumSeq(s) == IF s = <<>> THEN 0 ELSE s[1] + SumSeq(Tail(s))

\* Python's round(x, 1) on a score in thousandths of a point: the nearest
\* tenth of a point, a half going to the even tenth.
Round1(x) ==
    LET q == x \div 100
        r == x % 100
    IN  IF r < 50 THEN q * 100
        ELSE IF r > 50 THEN (q + 1) * 100
        ELSE IF q % 2 = 0 THEN q * 100 ELSE (q + 1) * 100

\* ------------------------------------------------------------------------
\* Characters
\* ------------------------------------------------------------------------

Digits == {"0", "1", "2", "3", "4", "5", "6", "7", "8", "9"}

LowerSeq ==
    <<"a", "b", "c", "d", "e", "f", "g", "h", "i", "j", "k", "l", "m",
      "n", "o", "p", "q", "r", "s", "t", "u", "v", "w", "x", "y", "z">>

UpperSeq ==
    <<"A", "B", "C", "D", "E", "F", "G", "H", "I", "J", "K", "L", "M",
      "N", "O", "P", "Q", "R", "S", "T", "U", "V", "W", "X", "Y", "Z">>

Lowers == {LowerSeq[i] : i \in 1..26}

Uppers == {UpperSeq[i] : i \in 1..26}

\* \s of the regular expressions
Spaces == {" ", "\t", "\n"}

\* [.!?]
SentenceFinal == {".", "!", "?"}

\* str.lower() on one character
LowerChar(c) ==
    IF c \in Uppers THEN LowerSeq[CHOOSE i \in 1..26 : UpperSeq[i] = c] ELSE c

\* str.lower()
Lower(text) == [i \in 1..Len(text) |-> LowerChar(text[i])]

\* The end (exclusive) of the longest run of characters of class cls that
\* starts at position i of text.
RECURSIVE RunEnd(_, _, _)
RunEnd(text, i, cls) ==
    IF i \in 1..Len(text) /\ text[i] \in cls THEN RunEnd(text, i + 1, cls)
    ELSE i

\* text[i:j] of Python, with 1-based i and exclusive j
Slice(text, i, j) == SubSeq(text, i, j - 1)

\* needle in hay (substring test of Python)
Contains(hay, needle) ==
    \E i \in 1..(Len(hay) - Len(needle) + 1) :
        SubSeq(hay, i, i + Len(needle) - 1) = needle

\* s.strip()
Strip(s) ==
    LET keep == {i \in 1..Len(s) : s[i] \notin Spaces}
    IN  IF keep = {} THEN <<>>
        ELSE LET lo == CHOOSE i \in keep : \A j \in keep : i <= j
                 hi == CHOOSE i \in keep : \A j \in keep : i >= j
             IN  SubSeq(s, lo, hi)

\* len(s.split()): the number of maximal runs of non-space characters
WordCount(s) ==
    Cardinality({i \in 1..Len(s) :
        s[i] \notin Spaces /\ (i = 1 \/ s[i - 1] \in Spaces)})

\* ------------------------------------------------------------------------
\* Text utilities
\* ------------------------------------------------------------------------

\* The positions 1..n in order
Positions(n) == [i \in 1..n |-> i]

\* re.split(r"(?<=[.!?])\s+", text): the text is cut at every run of spaces
\* that directly follows a sentence-final character.
ReSplit(text) ==
    LET cuts == SelectSeq(Positions(Len(text)),
                          LAMBDA i : /\ text[i] \in Spaces
                                     /\ i > 1
                                     /\ text[i - 1] \in SentenceFinal)
        from(k) == IF k = 1 THEN 1 ELSE RunEnd(text, cuts[k - 1], Spaces)
        to(k) == IF k > Len(cuts) THEN Len(text) + 1 ELSE cuts[k]
    IN  [k \in 1..(Len(cuts) + 1) |-> Slice(text, from(k), to(k))]

\* [s.strip() for s in sentences if s.strip() and len(s.split()) > 3]
KeepSentences(parts) ==
    LET kept == SelectSeq(parts, LAMBDA s : Strip(s) # <<>> /\ WordCount(s) > 3)
    IN  [k \in 1..Len(kept) |-> Strip(kept[k])]

\* _split_sentences
SplitSentences(text) == KeepSentences(ReSplit(text))

AlNum == Lowers \cup Digits

\* re.findall(r"[a-z0-9]+", text), text already lowercased
AlNumRuns(text) ==
    LET starts == SelectSeq(Positions(Len(text)),
                            LAMBDA i : /\ text[i] \in AlNum
                                       /\ (i = 1 \/ text[i - 1] \notin AlNum))
    IN  [k \in 1..Len(starts) |->
            Slice(text, starts[k], RunEnd(text, starts[k], AlNum))]

\* _STOPWORDS
STOPWORDS ==
    { <<"t", "h", "e">>, <<"a">>, <<"a", "n">>, <<"i", "s">>,
      <<"a", "r", "e">>, <<"w", "a", "s">>, <<"w", "e", "r", "e">>,
      <<"b", "e">>, <<"b", "e", "e", "n">>, <<"b", "e", "i", "n", "g">>,
      <<"h", "a", "v", "e">>, <<"h", "a", "s">>, <<"h", "a", "d">>,
      <<"d", "o">>, <<"d", "o", "e", "s">>, <<"d", "i", "d">>,
      <<"w", "i", "l", "l">>, <<"w", "o", "u", "l", "d">>,
      <<"c", "o", "u", "l", "d">>, <<"s", "h", "o", "u", "l", "d">>,
      <<"m", "a", "y">>, <<"m", "i", "g", "h", "t">>,
      <<"s", "h", "a", "l", "l">>, <<"c", "a", "n">>, <<"n", "e", "e", "d">>,
      <<"t", "o">>, <<"o", "f">>, <<"i", "n">>, <<"f", "o", "r">>,
      <<"o", "n">>, <<"w", "i", "t", "h">>, <<"a", "t">>, <<"b", "y">>,
      <<"f", "r", "o", "m">>, <<"a", "s">>, <<"i", "n", "t", "o">>,
      <<"t", "h", "r", "o", "u", "g", "h">>,
      <<"d", "u", "r", "i", "n", "g">>, <<"b", "e", "f", "o", "r", "e">>,
      <<"a", "f", "t", "e", "r">>, <<"a", "b", "o", "v", "e">>,
      <<"b", "e", "l", "o", "w">>, <<"b", "e", "t", "w", "e", "e", "n">>,
      <<"o", "u", "t">>, <<"o", "f", "f">>, <<"o", "v", "e", "r">>,
      <<"u", "n", "d", "e", "r">>, <<"a", "g", "a", "i", "n">>,
      <<"f", "u", "r", "t", "h", "e", "r">>, <<"t", "h", "e", "n">>,
      <<"o", "n", "c", "e">>, <<"a", "n", "d">>, <<"b", "u", "t">>,
      <<"o", "r">>, <<"n", "o", "r">>, <<"n", "o", "t">>, <<"s", "o">>,
      <<"y", "e", "t">>, <<"b", "o", "t", "h">>,
      <<"e", "i", "t", "h", "e", "r">>,
      <<"n", "e", "i", "t", "h", "e", "r">>, <<"e", "a", "c", "h">>,
      <<"e", "v", "e", "r", "y">>, <<"a", "l", "l">>, <<"a", "n", "y">>,
      <<"f", "e", "w">>, <<"m", "o", "r", "e">>, <<"m", "o", "s", "t">>,
      <<"o", "t", "h", "e", "r">>, <<"s", "o", "m", "e">>,
      <<"s", "u", "c", "h">>, <<"n", "o">>, <<"o", "n", "l", "y">>,
      <<"o", "w", "n">>, <<"s", "a", "m", "e">>, <<"t", "h", "a", "n">>,
      <<"t", "o", "o">>, <<"v", "e", "r", "y">>, <<"j", "u", "s", "t">>,
      <<"b", "e", "c", "a", "u", "s", "e">>, <<"i", "f">>,
      <<"w", "h", "e", "n">>, <<"w", "h", "e", "r", "e">>, <<"h", "o", "w">>,
      <<"w", "h", "a", "t">>, <<"w", "h", "i", "c", "h">>, <<"w", "h", "o">>,
      <<"w", "h", "o", "m">>, <<"t", "h", "i", "s">>, <<"t", "h", "a", "t">>,
      <<"t", "h", "e", "s", "e">>, <<"t", "h", "o", "s", "e">>, <<"i", "t">>,
      <<"i", "t", "s">> }

\* _tokenize
Tokenize(text) ==
    SelectSeq(AlNumRuns(Lower(text)),
              LAMBDA w : w \notin STOPWORDS /\ Len(w) > 1)

\* ------------------------------------------------------------------------
\* Regular expressions of _extract_numbers and _extract_entities.  Each
\* matcher gives the end (exclusive) of the match that re finds at position
\* i of text, or 0 when the pattern does not match there.
\* ------------------------------------------------------------------------

\* The character at position p, or "" outside the text.
At(text, p) == IF p \in 1..Len(text) THEN text[p] ELSE ""

\* Whether the literal lit stands at position p of text.
LitAt(text, p, lit) ==
    /\ p + Len(lit) - 1 <= Len(text)
    /\ SubSeq(text, p, p + Len(lit) - 1) = lit

\* (?:\.\d+)? at position p
OptFraction(text, p) ==
    IF At(text, p) = "." /\ At(text, p + 1) \in Digits
    THEN RunEnd(text, p + 1, Digits)
    ELSE p

\* million|billion|M|B|K, in the order the alternation tries them
CurrencySuffixes ==
    << <<"m", "i", "l", "l", "i", "o", "n">>,
       <<"b", "i", "l", "l", "i", "o", "n">>, <<"M">>, <<"B">>, <<"K">> >>

MonthNames ==
    << <<"J", "a", "n", "u", "a", "r", "y">>,
       <<"F", "e", "b", "r", "u", "a", "r", "y">>,
       <<"M", "a", "r", "c", "h">>, <<"A", "p", "r", "i", "l">>,
       <<"M", "a", "y">>, <<"J", "u", "n", "e">>, <<"J", "u", "l", "y">>,
       <<"A", "u", "g", "u", "s", "t">>,
       <<"S", "e", "p", "t", "e", "m", "b", "e", "r">>,
       <<"O", "c", "t", "o", "b", "e", "r">>,
       <<"N", "o", "v", "e", "m", "b", "e", "r">>,
       <<"D", "e", "c", "e", "m", "b", "e", "r">> >>

\* The end of the first alternative of alts that stands at p, or 0.
AltEnd(text, p, alts) ==
    LET hits == {k \in 1..Len(alts) : LitAt(text, p, alts[k])}
    IN  IF hits = {} THEN 0
        ELSE LET k == CHOOSE h \in hits : \A g \in hits : h <= g
             IN  p + Len(alts[k])

\* \$[\d,]+(?:\.\d+)?(?:\s*(?:million|billion|M|B|K))?
MatchCurrency(text, i) ==
    IF At(text, i) # "$" THEN 0
    ELSE LET e1 == RunEnd(text, i + 1, Digits \cup {","})
         IN  IF e1 = i + 1 THEN 0
             ELSE LET e2 == OptFraction(text, e1)
                      e3 == AltEnd(text, RunEnd(text, e2, Spaces), CurrencySuffixes)
                  IN  IF e3 > 0 THEN e3 ELSE e2

\* (?:,\d{3})+ from position p: the end of the last group, p when there is none
RECURSIVE CommaGroups(_, _)
CommaGroups(text, p) ==
    IF /\ At(text, p) = ","
       /\ At(text, p + 1) \in Digits
       /\ At(text, p + 2) \in Digits
       /\ At(text, p + 3) \in Digits
    THEN CommaGroups(text, p + 4)
    ELSE p

\* \d{1,3}(?:,\d{3})+(?:\.\d+)?
MatchGrouped(text, i) ==
    LET r == RunEnd(text, i, Digits) - i
        p == i + Min(r, 3)
    IN  IF r = 0 THEN 0
        ELSE LET g == CommaGroups(text, p)
             IN  IF g = p THEN 0 ELSE OptFraction(text, g)

\* \d+\.?\d* : the end of the longest such run from a digit at i
PlainEnd(text, i) ==
    LET e1 == RunEnd(text, i, Digits)
        e2 == IF At(text, e1) = "." THEN e1 + 1 ELSE e1
    IN  RunEnd(text, e2, Digits)

\* \d+\.?\d*\s*%
MatchPercent(text, i) ==
    IF At(text, i) \notin Digits THEN 0
    ELSE LET e == RunEnd(text, PlainEnd(text, i), Spaces)
         IN  IF At(text, e) = "%" THEN e + 1 ELSE 0

\* \d+\.?\d*
MatchPlain(text, i) ==
    IF At(text, i) \notin Digits THEN 0 ELSE PlainEnd(text, i)

\* [A-Z]{2,4}[-\s]?\d{4,}
MatchReference(text, i) ==
    LET r == RunEnd(text, i, Uppers) - i
        p == i + r
        q == IF At(text, p) \in ({"-"} \cup Spaces) THEN p + 1 ELSE p
        e == RunEnd(text, q, Digits)
    IN  IF r \in 2..4 /\ e - q >= 4 THEN e ELSE 0

\* \d{1,2}/\d{1,2}/\d{2,4}
MatchSlashDate(text, i) ==
    LET r1 == RunEnd(text, i, Digits) - i
        p1 == i + r1
        r2 == RunEnd(text, p1 + 1, Digits) - (p1 + 1)
        p2 == p1 + 1 + r2
        r3 == RunEnd(text, p2 + 1, Digits) - (p2 + 1)
    IN  IF /\ r1 \in 1..2 /\ At(text, p1) = "/"
           /\ r2 \in 1..2 /\ At(text, p2) = "/"
           /\ r3 >= 2
        THEN p2 + 1 + Min(r3, 4)
        ELSE 0

\* (?:January|...|December)\s+\d{1,2},?\s+\d{4}
MatchLongDate(text, i) ==
    LET m == AltEnd(text, i, MonthNames)
        s1 == RunEnd(text, m, Spaces)
        d == RunEnd(text, s1, Digits)
        c == IF At(text, d) = "," THEN d + 1 ELSE d
        s2 == RunEnd(text, c, Spaces)
        y == RunEnd(text, s2, Digits)
    IN  IF /\ m > 0 /\ s1 > m /\ (d - s1) \in 1..2 /\ s2 > c /\ y - s2 >= 4
        THEN s2 + 4
        ELSE 0

\* [A-Z][a-z]+ at position p: its end, or 0
CapWordEnd(text, p) ==
    LET e == RunEnd(text, p + 1, Lowers)
    IN  IF At(text, p) \in Uppers /\ e > p + 1 THEN e ELSE 0

\* (?:\s+[A-Z][a-z]+){0,left} from position p: the end of the last group
RECURSIVE CapGroups(_, _, _)
CapGroups(text, p, left) ==
    LET s == RunEnd(text, p, Spaces)
        e == CapWordEnd(text, s)
    IN  IF left > 0 /\ s > p /\ e > 0 THEN CapGroups(text, e, left - 1) ELSE p

\* [A-Z][a-z]+(?:\s+[A-Z][a-z]+){1,4}
MatchCapPhrase(text, i) ==
    LET w == CapWordEnd(text, i)
    IN  IF w = 0 THEN 0
        ELSE LET g == CapGroups(text, w, 4)
             IN  IF g = w THEN 0 ELSE g

MatchEnd(pattern, text, i) ==
    CASE pattern = "currency"  -> MatchCurrency(text, i)
      [] pattern = "grouped"   -> MatchGrouped(text, i)
      [] pattern = "percent"   -> MatchPercent(text, i)
      [] pattern = "plain"     -> MatchPlain(text, i)
      [] pattern = "reference" -> MatchReference(text, i)
      [] pattern = "slashdate" -> MatchSlashDate(text, i)
      [] pattern = "longdate"  -> MatchLongDate(text, i)
      [] pattern = "capphrase" -> MatchCapPhrase(text, i)

\* The matches among the candidate positions starts (in order) that begin at
\* or behind position from, each match resuming the scan at its end.
RECURSIVE MatchesFrom(_, _, _, _)
MatchesFrom(pattern, text, starts, from) ==
    IF starts = <<>> THEN <<>>
    ELSE IF starts[1] < from THEN MatchesFrom(pattern, text, Tail(starts), from)
    ELSE LET e == MatchEnd(pattern, text, starts[1])
         IN  <<Slice(text, starts[1], e)>>
             \o MatchesFrom(pattern, text, Tail(starts), e)

\* re.findall(pattern, text): the matches from left to right, without overlap
FindAll(pattern, text) ==
    MatchesFrom(pattern, text,
                SelectSeq(Positions(Len(text)),
                          LAMBDA i : MatchEnd(pattern, text, i) > 0),
                1)

Range(s) == {s[i] : i \in 1..Len(s)}

\* _extract_numbers: list(set(...)), as a set
ExtractNumbers(text) ==
    UNION {Range(FindAll(p, text)) :
           p \in {"currency", "grouped", "percent", "plain"}}

\* _extract_entities: list(set(...)), as a set
ExtractEntities(text) ==
    UNION {Range(FindAll(p, text)) :
           p \in {"reference", "slashdate", "longdate", "capphrase"}}

\* ------------------------------------------------------------------------
\* Configuration (config.py).  The values are read from the environment
\* when the module is imported; the defaults are those of config.py.
\* ------------------------------------------------------------------------

\* HALLUCINATION_WEIGHTS, in hundredths
HALLUCINATION_WEIGHTS ==
    [retrieval_confidence |-> 25, response_grounding |-> 35,
     numerical_fidelity |-> 20, entity_consistency |-> 20]

\* HALLUCINATION_VOLUME_WEIGHTS, in hundredths
HALLUCINATION_VOLUME_WEIGHTS ==
    [retrieval_confidence |-> 30, response_grounding |-> 30,
     numerical_fidelity |-> 20, entity_consistency |-> 20]

\* MAX_GROUNDING_CHUNKS, GROUNDING_THRESHOLD (thousandths),
\* EMBEDDING_BATCH_SIZE and VOLUME_THRESHOLD as config.py sets them when the
\* environment names no other value.
DefaultConfig ==
    [MAX_GROUNDING_CHUNKS |-> 20, GROUNDING_THRESHOLD |-> 650,
     EMBEDDING_BATCH_SIZE |-> 50, VOLUME_THRESHOLD |-> 50]

\* A deployment whose environment sets small limits, and the threshold 0.5.
SmallConfig ==
    [MAX_GROUNDING_CHUNKS |-> 2, GROUNDING_THRESHOLD |-> 500,
     EMBEDDING_BATCH_SIZE |-> 2, VOLUME_THRESHOLD |-> 3]

Configs == {DefaultConfig, SmallConfig}

\* The small limits with batches of one text
SingleTextConfig == [SmallConfig EXCEPT !.EMBEDDING_BATCH_SIZE = 1]

\* ------------------------------------------------------------------------
\* Lexical pre-filter
\* ------------------------------------------------------------------------

\* floor(log2(x)) for x >= 1
RECURSIVE FloorLog2(_)
FloorLog2(x) == IF x < 2 THEN 0 ELSE 1 + FloorLog2(x \div 2)

RECURSIVE Pow2(_)
Pow2(e) == IF e = 0 THEN 1 ELSE 2 * Pow2(e - 1)

\* The fraction bits of log2 of the mantissa y (in 4096ths, 4096 <= y < 8192),
\* by repeated squaring; bit is the value of the next bit.
RECURSIVE Log2Frac(_, _)
Log2Frac(y, bit) ==
    IF bit = 0 THEN 0
    ELSE LET sq == (y * y) \div 4096
         IN  IF sq >= 8192 THEN bit + Log2Frac(sq \div 2, bit \div 2)
             ELSE Log2Frac(sq, bit \div 2)

\* math.log(x) for an integer x >= 1, in thousandths
LnMilli(x) ==
    LET e == FloorLog2(x)
        y == (x * 4096) \div Pow2(e)
        log2 == e * 4096 + Log2Frac(y, 2048)
    IN  RDiv(log2 * 6931, 40960)

\* Counter(seq)[x]
Count(seq, x) == Cardinality({i \in 1..Len(seq) : seq[i] = x})

\* The keys of Counter(seq), in the order of their first occurrence
Distinct(seq) ==
    LET first == SelectSeq([i \in 1..Len(seq) |-> i],
                           LAMBDA i : \A j \in 1..(i - 1) : seq[j] # seq[i])
    IN  [k \in 1..Len(first) |-> seq[first[k]]] \o <<>>

\* [_tokenize(chunk["text"]) for chunk in source_chunks]
ChunkTokens(chunks) ==
    [i \in 1..Len(chunks) |-> Tokenize(chunks[i].text)] \o <<>>

\* doc_freq[token]: the number of chunks whose token set holds the token
DocFreq(tokens_list, token) ==
    Cardinality({i \in 1..Len(tokens_list) : Count(tokens_list[i], token) > 0})

\* The logarithm of the inverse ratio: negative for a token that some chunk
\* lacks
IdfInverted(tokens_list, token) ==
    LnMilli(DocFreq(tokens_list, token) + 1) - LnMilli(Len(tokens_list) + 1)

\* math.log((num_docs + 1) / (doc_freq.get(token, 0) + 1)), in thousandths
Idf(tokens_list, token) ==
    LnMilli(Len(tokens_list) + 1) - LnMilli(DocFreq(tokens_list, token) + 1)

\* The score of one chunk, in thousandths: the sum over the response's
\* distinct tokens found in the chunk of tf * idf * response count.
ChunkScore(keys, idf, response_tokens, chunk_tokens) ==
    LET term(k) == IF Count(chunk_tokens, keys[k]) > 0
                   THEN Count(chunk_tokens, keys[k]) * idf[k]
                        * Count(response_tokens, keys[k])
                   ELSE 0
    IN  RDiv(SumSeq([k \in 1..Len(keys) |-> term(k)]),
             Max(Len(chunk_tokens), 1))

\* The place of entry i after a descending sort that reverses equal entries
SortedPlaceReversingTies(score, i) ==
    1 + Cardinality({j \in 1..Len(score) :
                        \/ score[j] > score[i]
                        \/ score[j] = score[i] /\ j > i})

\* The place of entry i after the stable descending sort: behind every entry
\* of a larger score and every earlier entry of the same score.
SortedPlace(score, i) ==
    1 + Cardinality({j \in 1..Len(score) :
                        \/ score[j] > score[i]
                        \/ score[j] = score[i] /\ j < i})

\* scored_chunks.sort(key=lambda x: x[0], reverse=True): the indices of the
\* entries in their sorted order
SortByScore(score) ==
    LET place == [i \in 1..Len(score) |-> SortedPlace(score, i)] \o <<>>
    IN  [k \in 1..Len(score) |-> CHOOSE i \in 1..Len(score) : place[i] = k]

\* One element more than asked for
TakeOneMore(seq, k) == SubSeq(seq, 1, Min(k + 1, Len(seq)))

\* source_chunks[:k]
Take(seq, k) == SubSeq(seq, 1, Min(k, Len(seq)))

\* No pre-filter
TfidfPrefilterKeepsAll(response, source_chunks, max_chunks) == source_chunks

\* The scores of scored_chunks, in the order of source_chunks
ChunkScores(response, source_chunks) ==
    LET response_tokens == Tokenize(response)
        tokens_list == ChunkTokens(source_chunks)
        keys == Distinct(response_tokens)
        idf == [k \in 1..Len(keys) |-> Idf(tokens_list, keys[k])] \o <<>>
    IN  [i \in 1..Len(source_chunks) |->
            ChunkScore(keys, idf, response_tokens, tokens_list[i])] \o <<>>

\* A pre-filter that scores and sorts whatever the numbers of chunks and of
\* tokens are
TfidfPrefilterAlwaysScoring(response, source_chunks, max_chunks) ==
    LET sorted == SortByScore(ChunkScores(response, source_chunks))
    IN  [k \in 1..Min(max_chunks, Len(sorted)) |-> source_chunks[sorted[k]]]

\* _tfidf_prefilter
TfidfPrefilter(response, source_chunks, max_chunks) ==
    IF Len(source_chunks) <= max_chunks THEN source_chunks
    ELSE IF Tokenize(response) = <<>> THEN Take(source_chunks, max_chunks)
    ELSE LET sorted == SortByScore(ChunkScores(response, source_chunks))
         IN  [k \in 1..Min(max_chunks, Len(sorted)) |->
                 source_chunks[sorted[k]]]

\* ------------------------------------------------------------------------
\* Factor computation
\* ------------------------------------------------------------------------

\* c.get("similarity", 0.0)
SimilarityOf(c) == IF "similarity" \in DOMAIN c THEN c.similarity ELSE 0

\* 1.0 / (i + 1) for the chunk at (1-based) rank i
RankWeight(i) == RDiv(10 * One, i)

\* _compute_retrieval_confidence, in thousandths of a point
ComputeRetrievalConfidence(source_chunks) ==
    IF source_chunks = <<>> THEN 0
    ELSE LET n == Len(source_chunks)
             weighted_sum ==
                 SumSeq([i \in 1..n |-> SimilarityOf(source_chunks[i]) * RankWeight(i)])
             total_weight == SumSeq([i \in 1..n |-> RankWeight(i)])
         IN  Min(One, RDiv(weighted_sum, total_weight)) * 100

\* np.linalg.norm of one row, in thousandths
Norm(v) == ISqrt(One * One * SumSeq([k \in 1..Len(v) |-> v[k] * v[k]]))

\* A normalization that puts the first unit vector for a row of norm 0
NormalizeZeroAsUnit(v) ==
    LET norm == Norm(v)
    IN  IF norm = 0 THEN [k \in 1..Len(v) |-> IF k = 1 THEN One ELSE 0]
        ELSE [k \in 1..Len(v) |-> RDiv(v[k] * One * One, norm)] \o <<>>

\* norms[norms == 0] = 1.0; row / norm, in thousandths
Normalize(v) ==
    LET norm == Norm(v)
        safe == IF norm = 0 THEN One ELSE norm
    IN  [k \in 1..Len(v) |-> RDiv(v[k] * One * One, safe)] \o <<>>

\* One entry of sent_normed @ src_normed.T, in thousandths
Similarity(a, b) ==
    LET a_normed == Normalize(a)
        b_normed == Normalize(b)
    IN  RDiv(SumSeq([k \in 1..Len(a) |-> a_normed[k] * b_normed[k]]), One)

\* The first index of the smallest entry
ArgMin(row) ==
    CHOOSE j \in 1..Len(row) :
        /\ \A k \in 1..Len(row) : row[k] >= row[j]
        /\ \A k \in 1..(j - 1) : row[k] > row[j]

\* The last index of the largest entry
ArgMaxLast(row) ==
    CHOOSE j \in 1..Len(row) :
        /\ \A k \in 1..Len(row) : row[k] <= row[j]
        /\ \A k \in (j + 1)..Len(row) : row[k] < row[j]

\* int(np.argmax(row)): the first index of the largest entry
ArgMax(row) ==
    CHOOSE j \in 1..Len(row) :
        /\ \A k \in 1..Len(row) : row[k] <= row[j]
        /\ \A k \in 1..(j - 1) : row[k] < row[j]

\* The similarity of a sentence that scores 100 (best_sim / 0.8)
FULL_SCORE_SIMILARITY == 800

\* The length to which a sentence is cut in the details (sent[:200])
SENTENCE_DISPLAY_LENGTH == 200

\* f"{best_chunk['source']}, p{best_chunk['page']}"
BestSource(chunk) == <<chunk.source, ", p", chunk.page>>

\* The full score from a similarity of 1 only
SentenceScoreOfOne(best_sim) == Min(100 * One, best_sim * 100)

\* min(1.0, best_sim / 0.8) * 100, in thousandths of a point
SentenceScore(best_sim) ==
    Min(100 * One, RDiv(best_sim * 100 * One, FULL_SCORE_SIMILARITY))

\* Grounded from the threshold on
IsGroundedFromThreshold(best_sim, grounding_threshold) ==
    best_sim >= grounding_threshold

\* is_grounded = best_sim > grounding_threshold
IsGrounded(best_sim, grounding_threshold) == best_sim > grounding_threshold

\* Step 3 and step 4 of _compute_response_grounding for sentence i
GroundSentence(sent, sent_emb, filtered_chunks, source_embeddings, grounding_threshold) ==
    LET row == [j \in 1..Len(source_embeddings) |->
                   Similarity(sent_emb, source_embeddings[j])] \o <<>>
        best_idx == ArgMax(row)
        best_sim == row[best_idx]
    IN  [score |-> SentenceScore(best_sim),
         best_sim |-> best_sim,
         detail |-> [sentence |-> Take(sent, SENTENCE_DISPLAY_LENGTH),
                     grounding_score |-> Round1(SentenceScore(best_sim)),
                     best_source |-> BestSource(filtered_chunks[best_idx]),
                     is_grounded |-> IsGrounded(best_sim, grounding_threshold)]]

\* The average of the rounded scores of the details
GroundingResultOfRounded(sentences, sentence_embeddings, filtered_chunks, source_embeddings, grounding_threshold) ==
    LET rows == [i \in 1..Len(sentences) |->
                    GroundSentence(sentences[i], sentence_embeddings[i],
                                   filtered_chunks, source_embeddings,
                                   grounding_threshold)] \o <<>>
        scores == [i \in 1..Len(rows) |-> rows[i].detail.grounding_score]
    IN  [avg_score |-> IF Len(scores) > 0
                       THEN RDiv(SumSeq(scores), Len(scores)) ELSE 0,
         details |-> [i \in 1..Len(rows) |-> rows[i].detail],
         best_sims |-> [i \in 1..Len(rows) |-> rows[i].best_sim]]

\* Steps 3 and 4 of _compute_response_grounding: the average score and the
\* details, from the embeddings the gateway returned.
GroundingResult(sentences, sentence_embeddings, filtered_chunks, source_embeddings, grounding_threshold) ==
    LET rows == [i \in 1..Len(sentences) |->
                    GroundSentence(sentences[i], sentence_embeddings[i],
                                   filtered_chunks, source_embeddings,
                                   grounding_threshold)] \o <<>>
        scores == [i \in 1..Len(rows) |-> rows[i].score]
    IN  [avg_score |-> IF Len(scores) > 0
                       THEN RDiv(SumSeq(scores), Len(scores)) ELSE 0,
         details |-> [i \in 1..Len(rows) |-> rows[i].detail],
         best_sims |-> [i \in 1..Len(rows) |-> rows[i].best_sim]]

\* " ".join(c["text"] for c in source_chunks)
RECURSIVE BuildSourceContext(_)
BuildSourceContext(source_chunks) ==
    IF source_chunks = <<>> THEN <<>>
    ELSE IF Len(source_chunks) = 1 THEN source_chunks[1].text
    ELSE source_chunks[1].text \o <<" ">> \o BuildSourceContext(Tail(source_chunks))

\* num.replace(",", "").replace("$", "").strip()
CleanNumber(num) == Strip(SelectSeq(num, LAMBDA c : c \notin {",", "$"}))

\* A numerical fidelity that looks for the number as it stands only
ComputeNumericalFidelityRawOnly(response, source_text) ==
    LET response_numbers == ExtractNumbers(response)
        matched == {num \in response_numbers : Contains(source_text, num)}
    IN  IF response_numbers = {} THEN 100 * One
        ELSE RDiv(Cardinality(matched) * 100 * One, Cardinality(response_numbers))

\* _compute_numerical_fidelity, in thousandths of a point
ComputeNumericalFidelity(response, source_text) ==
    LET response_numbers == ExtractNumbers(response)
        source_numbers == ExtractNumbers(source_text)
        matched ==
            {num \in response_numbers :
                \/ \E sn \in source_numbers :
                       Contains(CleanNumber(sn), CleanNumber(num))
                \/ Contains(source_text, num)}
    IN  IF response_numbers = {} THEN 100 * One
        ELSE RDiv(Cardinality(matched) * 100 * One, Cardinality(response_numbers))

\* An entity consistency that looks for the entity in its own case
ComputeEntityConsistencyInCase(response, source_text) ==
    LET response_entities == ExtractEntities(response)
        matched == {e \in response_entities : Contains(source_text, e)}
    IN  IF response_entities = {} THEN 100 * One
        ELSE RDiv(Cardinality(matched) * 100 * One, Cardinality(response_entities))

\* _compute_entity_consistency, in thousandths of a point
ComputeEntityConsistency(response, source_text) ==
    LET response_entities == ExtractEntities(response)
        source_lower == Lower(source_text)
        matched == {e \in response_entities : Contains(source_lower, Lower(e))}
    IN  IF response_entities = {} THEN 100 * One
        ELSE RDiv(Cardinality(matched) * 100 * One, Cardinality(response_entities))

\* ------------------------------------------------------------------------
\* The nested-loop grounding of services/hallucination.py
\* ------------------------------------------------------------------------

\* The threshold of the nested loop (best_sim > 0.65)
NESTED_LOOP_THRESHOLD == 650

\* _cosine_similarity(a, b), in thousandths: 0.0 when a norm is 0
CosineSimilarity(a, b) ==
    LET dot == SumSeq([k \in 1..Len(a) |-> a[k] * b[k]])
        norm == RDiv(Norm(a) * Norm(b), One)
    IN  IF norm = 0 THEN 0 ELSE RDiv(dot * One * One, norm)

\* The inner loop from chunk j on: best holds best_sim and best_source, which
\* a chunk replaces when its similarity is larger than best_sim.
RECURSIVE NestedLoopBest(_, _, _, _, _)
NestedLoopBest(sent_emb, source_chunks, source_embeddings, j, best) ==
    IF j > Len(source_chunks) THEN best
    ELSE LET sim == CosineSimilarity(sent_emb, source_embeddings[j])
         IN  NestedLoopBest(
                 sent_emb, source_chunks, source_embeddings, j + 1,
                 IF sim > best.best_sim
                 THEN [best_sim |-> sim,
                       best_source |-> BestSource(source_chunks[j])]
                 ELSE best)

\* The outer loop of the nested-loop _compute_response_grounding: best_sim
\* starts at 0.0 and best_source at "". The score, its rounding and the cut
\* of the sentence are those of the vectorized computation.
NestedLoopGrounding(sentences, sentence_embeddings, source_chunks, source_embeddings) ==
    LET rows == [i \in 1..Len(sentences) |->
                    NestedLoopBest(sentence_embeddings[i], source_chunks,
                                   source_embeddings, 1,
                                   [best_sim |-> 0, best_source |-> <<>>])] \o <<>>
        scores == [i \in 1..Len(rows) |-> SentenceScore(rows[i].best_sim)]
    IN  [avg_score |-> IF Len(scores) > 0
                       THEN RDiv(SumSeq(scores), Len(scores)) ELSE 0,
         details |-> [i \in 1..Len(rows) |->
                         [sentence |-> Take(sentences[i], SENTENCE_DISPLAY_LENGTH),
                          grounding_score |-> Round1(scores[i]),
                          best_source |-> rows[i].best_source,
                          is_grounded |->
                              rows[i].best_sim > NESTED_LOOP_THRESHOLD]]]

\* ------------------------------------------------------------------------
\* Weight selection, composition, rating and report
\* ------------------------------------------------------------------------

\* The high-volume weights only above the threshold
SelectWeightsAboveThreshold(chunk_count, volume_threshold) ==
    IF chunk_count > volume_threshold
    THEN HALLUCINATION_VOLUME_WEIGHTS ELSE HALLUCINATION_WEIGHTS

\* is_high_volume; w
SelectWeights(chunk_count, volume_threshold) ==
    IF chunk_count >= volume_threshold
    THEN HALLUCINATION_VOLUME_WEIGHTS ELSE HALLUCINATION_WEIGHTS

\* The weighted sum without the entity term
WeightedSumWithoutEntity(f, w) ==
    RDiv(f.retrieval * w.retrieval_confidence
           + f.grounding * w.response_grounding
           + f.numerical * w.numerical_fidelity,
         100)

\* The weighted sum of the four factor scores, before clamping
WeightedSum(f, w) ==
    RDiv(f.retrieval * w.retrieval_confidence
           + f.grounding * w.response_grounding
           + f.numerical * w.numerical_fidelity
           + f.entity * w.entity_consistency,
         100)

\* round(min(100.0, max(0.0, overall)), 1)
ClampRound(overall) == Round1(Min(100 * One, Max(0, overall)))

\* overall >= 80
RATING_LOW_FROM == 80

\* overall >= 50
RATING_MEDIUM_FROM == 50

\* flagged[:10]
MAX_FLAGGED_CLAIMS == 10

\* The rating with exclusive boundaries
RatingAboveBoundary(overall) ==
    IF overall > RATING_LOW_FROM * One THEN "low"
    ELSE IF overall > RATING_MEDIUM_FROM * One THEN "medium"
    ELSE "high"

\* "low" if overall >= 80 else "medium" if overall >= 50 else "high"
Rating(overall) ==
    IF overall >= RATING_LOW_FROM * One THEN "low"
    ELSE IF overall >= RATING_MEDIUM_FROM * One THEN "medium"
    ELSE "high"

\* Every sentence of the details
FlaggedEverySentence(sentence_details) ==
    [i \in 1..Len(sentence_details) |-> sentence_details[i].sentence]

\* [d.sentence for d in sentence_details if not d.is_grounded]
Flagged(sentence_details) ==
    LET ungrounded == SelectSeq(sentence_details, LAMBDA d : ~d.is_grounded)
    IN  [i \in 1..Len(ungrounded) |-> ungrounded[i].sentence]

\* The HallucinationReport that analyze_hallucination returns
MakeReport(f, sentence_details, w) ==
    LET overall == ClampRound(WeightedSum(f, w))
    IN  [overall_score |-> overall,
         retrieval_confidence |-> Round1(f.retrieval),
         response_grounding |-> Round1(f.grounding),
         numerical_fidelity |-> Round1(f.numerical),
         entity_consistency |-> Round1(f.entity),
         sentence_details |-> sentence_details,
         flagged_claims |-> Take(Flagged(sentence_details), MAX_FLAGGED_CLAIMS),
         rating |-> Rating(overall)]

\* ------------------------------------------------------------------------
\* The inputs of one analyze_hallucination call
\* ------------------------------------------------------------------------

\* The largest number of qualifying sentences of the short answers
MaxSentences == 2

\* The largest number of chunks of the short chunk lists
MaxChunks == 3

\* The numbers of sentences of the long answers (beyond the flag cap)
LongCounts == {11, 15}

\* The numbers of chunks of the long chunk lists (around the default
\* pre-filter cap and the default volume threshold)
LargeCounts == {21, 49, 50}

\* "Acme Corp pays $2,000 fee."
SentenceA ==
    <<"A", "c", "m", "e", " ", "C", "o", "r", "p", " ", "p", "a", "y", "s",
    " ", "$", "2", ",", "0", "0", "0", " ", "f", "e", "e", ".">>

\* "Tax of 5 % is due."
SentenceB ==
    <<"T", "a", "x", " ", "o", "f", " ", "5", " ", "%", " ", "i", "s", " ",
    "d", "u", "e", ".">>

\* "Hi there." (three words or fewer: no qualifying sentence)
Fragment ==
    <<"H", "i", " ", "t", "h", "e", "r", "e", ".">>

\* "It is at the." (a qualifying sentence of stopwords only: no token)
StopSentence ==
    <<"I", "t", " ", "i", "s", " ", "a", "t", " ", "t", "h", "e", ".">>

\* "The premium is $25,000."
PremiumSentence ==
    <<"T", "h", "e", " ", "p", "r", "e", "m", "i", "u", "m", " ", "i", "s",
    " ", "$", "2", "5", ",", "0", "0", "0", ".">>

\* "Acme Corp fee $2,000"
TextA ==
    <<"A", "c", "m", "e", " ", "C", "o", "r", "p", " ", "f", "e", "e", " ",
    "$", "2", ",", "0", "0", "0">>

\* "tax due 5 %"
TextB ==
    <<"t", "a", "x", " ", "d", "u", "e", " ", "5", " ", "%">>

\* "misc notes"
TextC ==
    <<"m", "i", "s", "c", " ", "n", "o", "t", "e", "s">>

\* "$25,000"
PremiumText ==
    <<"$", "2", "5", ",", "0", "0", "0">>

\* "Premium: $25,000."
PremiumTextStop ==
    <<"P", "r", "e", "m", "i", "u", "m", ":", " ", "$", "2", "5", ",", "0",
    "0", "0", ".">>

\* "25000" (the amount without its sign and its comma)
PremiumTextPlain ==
    <<"2", "5", "0", "0", "0">>

\* "long long ... long." of 51 words: a sentence of 255 characters
LongSentence ==
    LET word == <<"l", "o", "n", "g">>
        spaced == word \o <<" ">>
        five == spaced \o spaced \o spaced \o spaced \o spaced
        fifty == five \o five \o five \o five \o five
                 \o five \o five \o five \o five \o five
    IN  fifty \o word \o <<".">>

\* "Acme Corp misc notes." (words of text A and of text C, none of text B)
NotesSentence ==
    <<"A", "c", "m", "e", " ", "C", "o", "r", "p", " ", "m", "i", "s", "c",
    " ", "n", "o", "t", "e", "s", ".">>

\* "Acme Corp pays 5 % fee." (words of text A, a number of text B)
FeeSentence ==
    <<"A", "c", "m", "e", " ", "C", "o", "r", "p", " ", "p", "a", "y", "s",
    " ", "5", " ", "%", " ", "f", "e", "e", ".">>

\* "Acme Corp met Beta Bank." (two entities)
EntitySentence ==
    <<"A", "c", "m", "e", " ", "C", "o", "r", "p", " ", "m", "e", "t", " ",
    "B", "e", "t", "a", " ", "B", "a", "n", "k", ".">>

\* "notes on acme corp" (an entity in lower case)
LowerCaseText ==
    <<"n", "o", "t", "e", "s", " ", "o", "n", " ", "a", "c", "m", "e", " ",
    "c", "o", "r", "p">>

\* The j-th sentence of an answer
SentenceAt(j) == IF j % 7 = 1 THEN SentenceA ELSE SentenceB

RECURSIVE JoinSpace(_)
JoinSpace(parts) ==
    IF parts = <<>> THEN <<>>
    ELSE IF Len(parts) = 1 THEN parts[1]
    ELSE parts[1] \o <<" ">> \o JoinSpace(Tail(parts))

\* An answer of m qualifying sentences, behind a fragment when frag
MkAnswer(m, frag) ==
    JoinSpace((IF frag THEN <<Fragment>> ELSE <<>>)
              \o [j \in 1..m |-> SentenceAt(j)])

\* The short answers: a fragment goes before at most one sentence
ShortAnswers ==
    {MkAnswer(m, FALSE) : m \in 0..MaxSentences}
    \cup {MkAnswer(m, TRUE) : m \in 0..1}
    \cup {StopSentence}

\* The answer of the specification's numeric example
PremiumAnswers == {PremiumSentence}

LongAnswers == {MkAnswer(m, FALSE) : m \in LongCounts}

\* Answers with a sentence beyond the length that a detail shows
LongSentenceAnswers ==
    {LongSentence, LongSentence \o <<" ">> \o SentenceB}

\* A chunk as the vector store returns it
MkChunk(text, source, page, similarity) ==
    [text |-> text, source |-> source, page |-> page, similarity |-> similarity]

\* A chunk without the similarity key
MkChunkNoSimilarity(text, source, page) ==
    [text |-> text, source |-> source, page |-> page]

\* Retrieval similarities of a single chunk, in thousandths: below 0, in
\* [0, 1] and above 1
SingleSimilarities == {-500, 200, 396, 400, 900, 1500}

\* The chunk at rank i of the chunk list of pattern p: the texts come round
\* with the given period, text A and text B once in each round
PatternChunk(p, i, period) ==
    LET kind == IF p = 1 THEN i % period
                ELSE (period + 1 - (i % period)) % period
        text == IF kind = 1 THEN TextA ELSE IF kind = 2 THEN TextB ELSE TextC
        source == IF kind = 1 THEN "a.pdf" ELSE IF kind = 2 THEN "b.pdf" ELSE "c.pdf"
    IN  IF p = 1 THEN MkChunk(text, source, i, Max(0, 900 - 10 * (i - 1)))
        ELSE IF i % 2 = 1 THEN MkChunk(text, source, i, -300)
        ELSE MkChunkNoSimilarity(text, source, i)

PatternList(n, p) == [i \in 1..n |-> PatternChunk(p, i, 3)]

LargePatternList(n, p) == [i \in 1..n |-> PatternChunk(p, i, 10)]

SingleLists ==
    {<<>>, <<MkChunkNoSimilarity(TextA, "a.pdf", 1)>>}
    \cup {<<MkChunk(TextA, "a.pdf", 1, s)>> : s \in SingleSimilarities}

ShortLists ==
    SingleLists \cup {PatternList(n, p) : n \in 2..MaxChunks, p \in 1..2}

\* Sources with the amount, with the amount before a full stop, and with no
\* number
PremiumLists ==
    {<<MkChunk(text, "p.pdf", 1, 900)>> :
        text \in {PremiumText, PremiumTextStop, PremiumTextPlain, TextC}}
    \cup {<<MkChunk(TextC, "c.pdf", 1, 900), MkChunk(PremiumText, "p.pdf", 2, 800)>>}

LargeLists ==
    {LargePatternList(n, 1) : n \in LargeCounts} \cup {LargePatternList(21, 2)}

\* (answer, chunk list, configuration) of the calls the model makes
Inputs ==
    (ShortAnswers \X ShortLists \X {SmallConfig})
    \cup (ShortAnswers \X SingleLists \X {DefaultConfig})
    \cup (LongAnswers \X {PatternList(2, 1)} \X Configs)
    \cup ({MkAnswer(1, FALSE)} \X LargeLists \X {DefaultConfig})
    \cup (PremiumAnswers \X PremiumLists \X {DefaultConfig})
    \cup (LongSentenceAnswers \X {PatternList(2, 1)} \X {DefaultConfig})
    \cup ({LongSentence} \X {PatternList(3, 2)} \X {SmallConfig})
    \cup ({NotesSentence} \X {LargePatternList(49, 1)} \X {DefaultConfig})
    \cup ({FeeSentence} \X {PatternList(3, 2)} \X {SmallConfig})
    \cup ({MkAnswer(2, FALSE)} \X {PatternList(3, 1)} \X {SingleTextConfig})
    \cup ({EntitySentence} \X {<<MkChunk(LowerCaseText, "n.pdf", 1, 900)>>}
              \X {DefaultConfig})

\* "tax due"
TaxQuery ==
    <<"t", "a", "x", " ", "d", "u", "e">>

\* The query values of a call: none, and on the short lists that the
\* pre-filter cuts a query whose words are those of another chunk than the
\* answer's
Queries(chunks, cfg) ==
    IF cfg = SmallConfig /\ chunks = PatternList(MaxChunks, 1)
    THEN {<<>>, TaxQuery}
    ELSE {<<>>}

\* Embedding vectors the provider returns for sentences and for chunk texts.
\* Their norms (0, 1, 5, 2, 4) are exact in float32, and so are the entries
\* of the normalized vectors but those of (4, 3, 0, 0, 0), whose first is the
\* float32 next to 0.8 from above: the cosines 0, 1, -1, 0.5, -0.5, 0.25 and
\* -0.25 are exact in the code as they are here, and 0.8 lies on the same
\* side of the full-score similarity.
SentenceVectors ==
    {<<0, 0, 0, 0, 0>>, <<1, 0, 0, 0, 0>>, <<4, 3, 0, 0, 0>>, <<1, 1, 1, 1, 0>>,
     <<1, 3, 2, 1, 1>>}

\* The sentence vectors of the calls under the small configuration
SmallConfigSentenceVectors == SentenceVectors \ {<<1, 3, 2, 1, 1>>}

ChunkVectors == {<<0, 0, 0, 0, 0>>, <<1, 0, 0, 0, 0>>, <<-1, 0, 0, 0, 0>>}

\* The vectors of the calls with a long answer or a long chunk list
FewSentenceVectors == {<<1, 0, 0, 0, 0>>, <<1, 1, 1, 1, 0>>}

FewChunkVectors == {<<0, 0, 0, 0, 0>>, <<1, 0, 0, 0, 0>>}

\* The vectors of the sentences of the calls with a sentence that is cut
CutSentenceVectors == {<<1, 0, 0, 0, 0>>, <<1, 3, 2, 1, 1>>}

ChunkTexts(chunks) == {chunks[i].text : i \in 1..Len(chunks)}

\* The embedding providers of a call: one vector for each text that the
\* call can pass to embed_texts.
Providers(answer, chunks, cfg) ==
    LET texts == Range(SplitSentences(answer))
        few == \/ answer \in LongAnswers \cup PremiumAnswers
                         \cup LongSentenceAnswers
               \/ chunks \in LargeLists
               \/ cfg = SingleTextConfig
    IN  {s @@ c :
            s \in [texts -> IF answer \in LongSentenceAnswers
                            THEN CutSentenceVectors
                            ELSE IF few THEN FewSentenceVectors
                            ELSE IF cfg = SmallConfig
                            THEN SmallConfigSentenceVectors
                            ELSE SentenceVectors],
            c \in [ChunkTexts(chunks) -> IF few THEN FewChunkVectors ELSE ChunkVectors]}

\* ------------------------------------------------------------------------
\* One call of analyze_hallucination(response, source_chunks, query)
\* ------------------------------------------------------------------------

VARIABLES
    config,               \* the values of config.py
    response,             \* the answer text
    source_chunks,        \* the caller's chunk list
    query,                \* the question the answer was given to
    provider,             \* embed_texts of the provider: text -> vector
    pc,                   \* where the call stands
    retrieval_score,      \* analyze_hallucination's local
    sentences,            \* _compute_response_grounding's local
    filtered_chunks,      \* _compute_response_grounding's local
    offset,               \* _batched_embed's i
    all_embeddings,       \* _batched_embed's all_embeddings
    sentence_embeddings,  \* _compute_response_grounding's local
    source_embeddings,    \* _compute_response_grounding's local
    factors,              \* the four unrounded factor scores
    weights,              \* analyze_hallucination's w
    report,               \* the returned HallucinationReport, in a sequence
    calls,                \* the batches passed to embed_texts, in order
    suspended,            \* the locals of the invocations that are waiting
    _instance             \* embedding_factory's cached provider

VARIABLES
    EMBEDDING_BACKEND,    \* config.EMBEDDING_BACKEND
    frames,               \* each thread's place in get_embedding_provider
    resets,               \* the calls of reset_embedding_provider so far
    invoked,              \* the invocations of a registered factory, in order
    returns               \* the calls of get_embedding_provider that returned

vars ==
    <<config, response, source_chunks, query, provider, pc, retrieval_score,
      sentences, filtered_chunks, offset, all_embeddings,
      sentence_embeddings, source_embeddings, factors, weights, report,
      calls, suspended, _instance, EMBEDDING_BACKEND, frames, resets,
      invoked, returns>>

\* The variables of the threads that call the embedding factory directly
factory == <<EMBEDDING_BACKEND, frames, resets, invoked, returns>>

\* The threads that call the embedding factory directly
Threads == {"t1", "t2"}

\* "gemini", the default of config.EMBEDDING_BACKEND
Gemini == <<"g", "e", "m", "i", "n", "i">>

\* No thread is in get_embedding_provider and none has been
FactoryIdle ==
    /\ EMBEDDING_BACKEND = Gemini
    /\ frames = [t \in Threads |-> [pc |-> "idle", from |-> 0, instance |-> "None", n |-> 0]]
    /\ resets = 0
    /\ invoked = <<>>
    /\ returns = {}

inputs == <<config, response, source_chunks, query, provider>>

Init ==
    /\ \E inp \in Inputs :
         /\ response = inp[1]
         /\ source_chunks = inp[2]
         /\ config = inp[3]
         /\ query \in Queries(inp[2], inp[3])
         /\ provider \in Providers(inp[1], inp[2], inp[3])
    /\ pc = "call"
    /\ retrieval_score = 0
    /\ sentences = <<>>
    /\ filtered_chunks = <<>>
    /\ offset = 0
    /\ all_embeddings = <<>>
    /\ sentence_embeddings = <<>>
    /\ source_embeddings = <<>>
    /\ factors = <<>>
    /\ weights = <<>>
    /\ report = <<>>
    /\ calls = <<>>
    /\ suspended = <<>>
    /\ _instance = "None"
    /\ FactoryIdle

\* The start of a call without the early return
StartWithoutEarlyReturn ==
    /\ pc = "call"
    /\ retrieval_score' = ComputeRetrievalConfidence(source_chunks)
    /\ sentences' = SplitSentences(response)
    /\ pc' = "embed_sentences"
    /\ filtered_chunks' =
           TfidfPrefilter(response, source_chunks, config.MAX_GROUNDING_CHUNKS)
    /\ UNCHANGED <<inputs, factory, offset, all_embeddings, sentence_embeddings,
                   source_embeddings, factors, weights, report, calls,
                   suspended, _instance>>

\* The start of a call that pre-filters by the words of the query
StartFilteringByQuery ==
    /\ pc = "call"
    /\ retrieval_score' = ComputeRetrievalConfidence(source_chunks)
    /\ sentences' = SplitSentences(response)
    /\ IF sentences' = <<>> \/ source_chunks = <<>>
       THEN /\ pc' = "factors"
            /\ filtered_chunks' = <<>>
       ELSE /\ pc' = "embed_sentences"
            /\ filtered_chunks' =
                   TfidfPrefilter(query, source_chunks,
                                  config.MAX_GROUNDING_CHUNKS)
    /\ UNCHANGED <<inputs, factory, offset, all_embeddings, sentence_embeddings,
                   source_embeddings, factors, weights, report, calls,
                   suspended, _instance>>

\* The start of a call whose pre-filter cuts and sorts the caller's list in
\* place
StartFilteringInPlace ==
    /\ pc = "call"
    /\ retrieval_score' = ComputeRetrievalConfidence(source_chunks)
    /\ sentences' = SplitSentences(response)
    /\ IF sentences' = <<>> \/ source_chunks = <<>>
       THEN /\ pc' = "factors"
            /\ filtered_chunks' = <<>>
            /\ UNCHANGED source_chunks
       ELSE /\ pc' = "embed_sentences"
            /\ filtered_chunks' =
                   TfidfPrefilter(response, source_chunks,
                                  config.MAX_GROUNDING_CHUNKS)
            /\ source_chunks' = filtered_chunks'
    /\ UNCHANGED <<factory, config, response, query, provider, offset, all_embeddings,
                   sentence_embeddings, source_embeddings, factors, weights,
                   report, calls, suspended, _instance>>

\* analyze_hallucination up to the first embedding call: the retrieval
\* factor, then _compute_response_grounding's split, early return and
\* pre-filter.
Start ==
    /\ pc = "call"
    /\ retrieval_score' = ComputeRetrievalConfidence(source_chunks)
    /\ sentences' = SplitSentences(response)
    /\ IF sentences' = <<>> \/ source_chunks = <<>>
       THEN /\ pc' = "factors"
            /\ filtered_chunks' = <<>>
       ELSE /\ pc' = "embed_sentences"
            /\ filtered_chunks' =
                   TfidfPrefilter(response, source_chunks,
                                  config.MAX_GROUNDING_CHUNKS)
    /\ UNCHANGED <<inputs, factory, offset, all_embeddings, sentence_embeddings,
                   source_embeddings, factors, weights, report, calls,
                   suspended, _instance>>

\* get_embedding_provider(): the cached instance, or a new one that it
\* caches
GetEmbeddingProvider ==
    IF _instance # "None" THEN _instance ELSE "EmbeddingProvider"

\* The texts of all the chunks, kept or not, for the second embedding
BatchTextsOfAllChunks ==
    IF pc = "embed_sentences" THEN sentences
    ELSE [i \in 1..Len(source_chunks) |-> source_chunks[i].text]

\* The texts that _batched_embed is embedding at pc
BatchTexts ==
    IF pc = "embed_sentences" THEN sentences
    ELSE [i \in 1..Len(filtered_chunks) |-> filtered_chunks[i].text]

\* A batch that starts one text early
NextBatchFromOffset ==
    SubSeq(BatchTexts, Max(offset, 1),
           Min(offset + config.EMBEDDING_BATCH_SIZE, Len(BatchTexts)))

\* texts[i : i + batch_size]
NextBatch ==
    SubSeq(BatchTexts, offset + 1,
           Min(offset + config.EMBEDDING_BATCH_SIZE, Len(BatchTexts)))

\* One step of _batched_embed: its return of [] for no texts, without a
\* call, or one turn of its loop in which embed_texts returns.
EmbedBatch ==
    /\ pc \in {"embed_sentences", "embed_sources"}
    /\ LET batch == NextBatch
           got == all_embeddings \o [k \in 1..Len(batch) |-> provider[batch[k]]]
           last == offset + config.EMBEDDING_BATCH_SIZE >= Len(BatchTexts)
       IN  /\ calls' = IF BatchTexts = <<>> THEN calls
                       ELSE Append(calls, [of |-> pc, texts |-> batch])
           /\ _instance' = IF BatchTexts = <<>> THEN _instance
                           ELSE GetEmbeddingProvider
           /\ IF ~last
              THEN /\ offset' = offset + config.EMBEDDING_BATCH_SIZE
                   /\ all_embeddings' = got
                   /\ UNCHANGED <<pc, sentence_embeddings, source_embeddings>>
              ELSE /\ offset' = 0
                   /\ all_embeddings' = <<>>
                   /\ IF pc = "embed_sentences"
                      THEN /\ sentence_embeddings' = got
                           /\ pc' = "embed_sources"
                           /\ UNCHANGED source_embeddings
                      ELSE /\ source_embeddings' = got
                           /\ pc' = "factors"
                           /\ UNCHANGED sentence_embeddings
    /\ UNCHANGED <<inputs, factory, retrieval_score, sentences, filtered_chunks,
                   factors, weights, report, suspended>>

\* A raising embed_texts whose batch is requested again
EmbedRaiseThenRetry ==
    /\ pc \in {"embed_sentences", "embed_sources"}
    /\ BatchTexts # <<>>
    /\ calls' = Append(calls, [of |-> pc, texts |-> NextBatch])
    /\ UNCHANGED <<inputs, factory, pc, retrieval_score, sentences, filtered_chunks,
                   offset, all_embeddings, sentence_embeddings,
                   source_embeddings, factors, weights, report, suspended,
                   _instance>>

\* One turn of _batched_embed's loop in which embed_texts raises: the
\* exception leaves analyze_hallucination. It comes from
\* get_embedding_provider or the provider's factory, which cache nothing,
\* or from the provider's embed_texts, behind the cached instance.
EmbedRaise ==
    /\ pc \in {"embed_sentences", "embed_sources"}
    /\ BatchTexts # <<>>
    /\ calls' = Append(calls, [of |-> pc, texts |-> NextBatch])
    /\ pc' = "raised"
    /\ _instance' \in {_instance, GetEmbeddingProvider}
    /\ UNCHANGED <<inputs, factory, retrieval_score, sentences, filtered_chunks, offset,
                   all_embeddings, sentence_embeddings, source_embeddings,
                   factors, weights, report, suspended>>

\* The rest of a call that takes the source text and the weights from the
\* chunks that the pre-filter kept
FinishFromFilteredChunks ==
    /\ pc = "factors"
    /\ LET grounding ==
               IF sentences = <<>> \/ source_chunks = <<>>
               THEN [avg_score |-> 0, details |-> <<>>]
               ELSE GroundingResult(sentences, sentence_embeddings,
                                    filtered_chunks, source_embeddings,
                                    config.GROUNDING_THRESHOLD)
           source_text == BuildSourceContext(filtered_chunks)
           f == [retrieval |-> retrieval_score,
                 grounding |-> grounding.avg_score,
                 numerical |-> ComputeNumericalFidelity(response, source_text),
                 entity |-> ComputeEntityConsistency(response, source_text)]
           w == SelectWeights(Len(filtered_chunks), config.VOLUME_THRESHOLD)
       IN  /\ factors' = <<f>>
           /\ weights' = <<w>>
           /\ report' = <<MakeReport(f, grounding.details, w)>>
    /\ pc' = "returned"
    /\ UNCHANGED <<inputs, factory, retrieval_score, sentences, filtered_chunks, offset,
                   all_embeddings, sentence_embeddings, source_embeddings, calls,
                   suspended, _instance>>

\* The rest of analyze_hallucination: the similarity matrix and the details,
\* the numerical and entity factors, the weights, the overall score, the
\* flagged claims, the rating and the report.
Finish ==
    /\ pc = "factors"
    /\ LET grounding ==
               IF sentences = <<>> \/ source_chunks = <<>>
               THEN [avg_score |-> 0, details |-> <<>>]
               ELSE GroundingResult(sentences, sentence_embeddings,
                                    filtered_chunks, source_embeddings,
                                    config.GROUNDING_THRESHOLD)
           source_text == BuildSourceContext(source_chunks)
           f == [retrieval |-> retrieval_score,
                 grounding |-> grounding.avg_score,
                 numerical |-> ComputeNumericalFidelity(response, source_text),
                 entity |-> ComputeEntityConsistency(response, source_text)]
           w == SelectWeights(Len(source_chunks), config.VOLUME_THRESHOLD)
       IN  /\ factors' = <<f>>
           /\ weights' = <<w>>
           /\ report' = <<MakeReport(f, grounding.details, w)>>
    /\ pc' = "returned"
    /\ UNCHANGED <<inputs, factory, retrieval_score, sentences, filtered_chunks, offset,
                   all_embeddings, sentence_embeddings, source_embeddings, calls,
                   suspended, _instance>>

Next == Start \/ EmbedBatch \/ EmbedRaise \/ Finish

Spec == Init /\ [][Next]_vars

\* ------------------------------------------------------------------------
\* _batched_embed(texts, batch_size) on its own
\* ------------------------------------------------------------------------

\* The largest number of texts and the largest batch size
MaxTexts == 4

MaxBatchSize == 3

\* The lists of at most n texts
RECURSIVE TextLists(_)
TextLists(n) ==
    IF n = 0 THEN {<<>>}
    ELSE LET shorter == TextLists(n - 1)
         IN  shorter \cup {Append(l, x) : l \in shorter, x \in {SentenceA, SentenceB}}

\* _batched_embed(texts, batch_size) is entered with any list of texts and
\* any batch size; a second call, on no texts, follows it.
BatchedEmbedInit ==
    /\ sentences \in TextLists(MaxTexts)
    /\ \E b \in 1..MaxBatchSize :
           config = [DefaultConfig EXCEPT !.EMBEDDING_BATCH_SIZE = b]
    /\ provider \in [{SentenceA, SentenceB} -> FewSentenceVectors]
    /\ response = <<>>
    /\ source_chunks = <<>>
    /\ query = <<>>
    /\ pc = "embed_sentences"
    /\ retrieval_score = 0
    /\ filtered_chunks = <<>>
    /\ offset = 0
    /\ all_embeddings = <<>>
    /\ sentence_embeddings = <<>>
    /\ source_embeddings = <<>>
    /\ factors = <<>>
    /\ weights = <<>>
    /\ report = <<>>
    /\ calls = <<>>
    /\ suspended = <<>>
    /\ _instance = "None"
    /\ FactoryIdle

BatchedEmbedNext == EmbedBatch \/ EmbedRaise

BatchedEmbedSpec == BatchedEmbedInit /\ [][BatchedEmbedNext]_vars

\* ------------------------------------------------------------------------
\* analyze_hallucination(response, source_chunks, query) as a function
\* ------------------------------------------------------------------------

\* The calls of embed_texts that _batched_embed(texts, batch_size) makes when
\* none raises, each marked with the phase p
Batches(p, texts, batch_size) ==
    [k \in 1..((Len(texts) + batch_size - 1) \div batch_size) |->
        [of |-> p,
         texts |-> SubSeq(texts, (k - 1) * batch_size + 1,
                          Min(k * batch_size, Len(texts)))]]

\* The calls of embed_texts of _compute_response_grounding when none raises:
\* those for the sentences, then those for the texts of the kept chunks
ProviderCalls(sents, kept, batch_size) ==
    Batches("embed_sentences", sents, batch_size)
    \o Batches("embed_sources", [j \in 1..Len(kept) |-> kept[j].text],
               batch_size)

\* The report that analyze_hallucination returns, and the calls of embed_texts
\* it makes, when no call raises and embed_texts maps each text to
\* embed[text]. The query does not occur in the function's body.
AnalyzeHallucination(answer, chunks, cfg, embed) ==
    LET sents == SplitSentences(answer)
        nothing == sents = <<>> \/ chunks = <<>>
        kept == IF nothing THEN <<>>
                ELSE TfidfPrefilter(answer, chunks, cfg.MAX_GROUNDING_CHUNKS)
        source_texts == [j \in 1..Len(kept) |-> kept[j].text] \o <<>>
        grounding ==
            IF nothing THEN [avg_score |-> 0, details |-> <<>>]
            ELSE GroundingResult(
                     sents, [i \in 1..Len(sents) |-> embed[sents[i]]] \o <<>>,
                     kept, [j \in 1..Len(kept) |-> embed[source_texts[j]]] \o <<>>,
                     cfg.GROUNDING_THRESHOLD)
        source_text == BuildSourceContext(chunks)
        f == [retrieval |-> ComputeRetrievalConfidence(chunks),
              grounding |-> grounding.avg_score,
              numerical |-> ComputeNumericalFidelity(answer, source_text),
              entity |-> ComputeEntityConsistency(answer, source_text)]
        w == SelectWeights(Len(chunks), cfg.VOLUME_THRESHOLD)
    IN  [report |-> MakeReport(f, grounding.details, w),
         calls |-> IF nothing THEN <<>>
                   ELSE ProviderCalls(sents, kept, cfg.EMBEDDING_BATCH_SIZE)]

\* ------------------------------------------------------------------------
\* Invocations of analyze_hallucination that run concurrently
\* ------------------------------------------------------------------------

\* The arguments and the locals of the running invocation
Locals ==
    [response |-> response, source_chunks |-> source_chunks, query |-> query,
     pc |-> pc, retrieval_score |-> retrieval_score, sentences |-> sentences,
     filtered_chunks |-> filtered_chunks, offset |-> offset,
     all_embeddings |-> all_embeddings,
     sentence_embeddings |-> sentence_embeddings,
     source_embeddings |-> source_embeddings, factors |-> factors,
     weights |-> weights, report |-> report, calls |-> calls]

\* The arguments and the locals of an invocation that has not started
NotStarted(answer, chunks, q) ==
    [response |-> answer, source_chunks |-> chunks, query |-> q,
     pc |-> "call", retrieval_score |-> 0, sentences |-> <<>>,
     filtered_chunks |-> <<>>, offset |-> 0, all_embeddings |-> <<>>,
     sentence_embeddings |-> <<>>, source_embeddings |-> <<>>,
     factors |-> <<>>, weights |-> <<>>, report |-> <<>>, calls |-> <<>>]

\* An invocation goes on, with an all_embeddings list that is one list for
\* all invocations
ResumeSharingEmbeddings(f) ==
    /\ response' = f.response
    /\ source_chunks' = f.source_chunks
    /\ query' = f.query
    /\ pc' = f.pc
    /\ retrieval_score' = f.retrieval_score
    /\ sentences' = f.sentences
    /\ filtered_chunks' = f.filtered_chunks
    /\ offset' = f.offset
    /\ UNCHANGED all_embeddings
    /\ sentence_embeddings' = f.sentence_embeddings
    /\ source_embeddings' = f.source_embeddings
    /\ factors' = f.factors
    /\ weights' = f.weights
    /\ report' = f.report
    /\ calls' = f.calls

\* The invocation with the arguments and locals f goes on: all of them are
\* parameters and local variables of its own call frames.
Resume(f) ==
    /\ response' = f.response
    /\ source_chunks' = f.source_chunks
    /\ query' = f.query
    /\ pc' = f.pc
    /\ retrieval_score' = f.retrieval_score
    /\ sentences' = f.sentences
    /\ filtered_chunks' = f.filtered_chunks
    /\ offset' = f.offset
    /\ all_embeddings' = f.all_embeddings
    /\ sentence_embeddings' = f.sentence_embeddings
    /\ source_embeddings' = f.source_embeddings
    /\ factors' = f.factors
    /\ weights' = f.weights
    /\ report' = f.report
    /\ calls' = f.calls

\* The running invocation stands at a call of embed_texts, or before or after
\* its call, and the invocation that has waited longest goes on. The
\* configuration, the provider and the cached instance belong to the process.
Switch ==
    /\ suspended # <<>>
    /\ suspended' = Append(Tail(suspended), Locals)
    /\ Resume(Head(suspended))
    /\ UNCHANGED <<config, provider, _instance, factory>>

\* Batches of one text, so that an invocation waits with embeddings gathered
ConcurrentConfig == [SmallConfig EXCEPT !.EMBEDDING_BATCH_SIZE = 1]

\* (answer, chunk list, query) of the invocations that run concurrently
ConcurrentCalls ==
    {<<MkAnswer(2, FALSE), PatternList(2, 1), <<>>>>,
     <<MkAnswer(1, FALSE), PatternList(3, 2), TaxQuery>>,
     <<MkAnswer(1, TRUE), <<>>, <<>>>>}

\* The providers of the concurrent invocations
ConcurrentProviders ==
    {s @@ c : s \in [{SentenceA, SentenceB} -> FewSentenceVectors],
              c \in {[x \in {TextA, TextB, TextC} |->
                         IF x = y THEN <<1, 0, 0, 0, 0>> ELSE <<0, 0, 0, 0, 0>>] :
                     y \in {TextA, TextB}}}

\* Two invocations in one process, none started, no provider cached
ConcurrentInit ==
    /\ config = ConcurrentConfig
    /\ provider \in ConcurrentProviders
    /\ _instance = "None"
    /\ \E one \in ConcurrentCalls, other \in ConcurrentCalls :
           /\ response = one[1]
           /\ source_chunks = one[2]
           /\ query = one[3]
           /\ suspended = <<NotStarted(other[1], other[2], other[3])>>
    /\ pc = "call"
    /\ retrieval_score = 0
    /\ sentences = <<>>
    /\ filtered_chunks = <<>>
    /\ offset = 0
    /\ all_embeddings = <<>>
    /\ sentence_embeddings = <<>>
    /\ source_embeddings = <<>>
    /\ factors = <<>>
    /\ weights = <<>>
    /\ report = <<>>
    /\ calls = <<>>
    /\ FactoryIdle

ConcurrentNext == Start \/ EmbedBatch \/ EmbedRaise \/ Finish \/ Switch

ConcurrentSpec == ConcurrentInit /\ [][ConcurrentNext]_vars

\* ------------------------------------------------------------------------
\* get_embedding_provider and reset_embedding_provider on their own, called
\* by threads that run in parallel
\* ------------------------------------------------------------------------

\* The calls of get_embedding_provider of one thread, the calls of
\* reset_embedding_provider, and the instances that the factories make
MaxCallsPerThread == 2

MaxResets == 1

\* The instances in the order of their creation
InstanceNames == <<"provider 1", "provider 2", "provider 3", "provider 4">>

\* " AWS " (an alias, in upper case between spaces)
AwsAlias == <<" ", "A", "W", "S", " ">>

\* "unknown_backend"
UnknownBackend ==
    <<"u", "n", "k", "n", "o", "w", "n", "_", "b", "a", "c", "k", "e", "n",
      "d">>

\* The values of config.EMBEDDING_BACKEND
Backends == {Gemini, AwsAlias, UnknownBackend}

\* _registry after _register_builtins: name or alias -> factory
_registry ==
    [name \in {Gemini,
               <<"b", "e", "d", "r", "o", "c", "k">>,
               <<"a", "w", "s", "_", "b", "e", "d", "r", "o", "c", "k">>,
               <<"a", "w", "s">>,
               <<"t", "i", "t", "a", "n">>,
               <<"o", "p", "e", "n", "a", "i">>} |->
        IF name = Gemini THEN "_gemini"
        ELSE IF name = <<"o", "p", "e", "n", "a", "i">> THEN "_openai"
        ELSE "_bedrock"]

\* EMBEDDING_BACKEND.lower().strip()
Backend == Strip(Lower(EMBEDDING_BACKEND))

\* The record of a call of thread t that returns instance
ReturnOf(t, instance) ==
    [thread |-> t, from |-> frames[t].from, to |-> resets, instance |-> instance]

\* Thread t calls get_embedding_provider()
Enter(t) ==
    /\ frames[t].pc \in {"idle", "returned", "raised"}
    /\ frames[t].n < MaxCallsPerThread
    /\ frames' = [frames EXCEPT ![t] = [pc |-> "check", from |-> resets, instance |-> "None", n |-> @.n + 1]]
    /\ UNCHANGED <<inputs, pc, retrieval_score, sentences, filtered_chunks,
                   offset, all_embeddings, sentence_embeddings,
                   source_embeddings, factors, weights, report, calls,
                   suspended, _instance, EMBEDDING_BACKEND, resets, invoked,
                   returns>>

\* if _instance is not None: return _instance
CheckInstance(t) ==
    /\ frames[t].pc = "check"
    /\ IF _instance # "None"
       THEN /\ frames' = [frames EXCEPT ![t].pc = "returned", ![t].instance = _instance]
            /\ returns' = returns \cup {ReturnOf(t, _instance)}
       ELSE /\ frames' = [frames EXCEPT ![t].pc = "lookup"]
            /\ UNCHANGED returns
    /\ UNCHANGED <<inputs, pc, retrieval_score, sentences, filtered_chunks,
                   offset, all_embeddings, sentence_embeddings,
                   source_embeddings, factors, weights, report, calls,
                   suspended, _instance, EMBEDDING_BACKEND, resets, invoked>>

\* The backend name is read and looked up: ValueError when it is not in
\* _registry
LookupBackend(t) ==
    /\ frames[t].pc = "lookup"
    /\ frames' = [frames EXCEPT ![t].pc = IF Backend \in DOMAIN _registry THEN "factory" ELSE "raised"]
    /\ UNCHANGED <<inputs, pc, retrieval_score, sentences, filtered_chunks,
                   offset, all_embeddings, sentence_embeddings,
                   source_embeddings, factors, weights, report, calls,
                   suspended, _instance, EMBEDDING_BACKEND, resets, invoked,
                   returns>>

\* _registry[backend](): the factory imports the provider's module and makes
\* an instance
InvokeFactory(t) ==
    /\ frames[t].pc = "factory"
    /\ Len(invoked) < Len(InstanceNames)
    /\ invoked' = Append(invoked, [factory |-> _registry[Backend], from |-> frames[t].from, at |-> resets])
    /\ frames' = [frames EXCEPT ![t].pc = "store", ![t].instance = InstanceNames[Len(invoked) + 1]]
    /\ UNCHANGED <<inputs, pc, retrieval_score, sentences, filtered_chunks,
                   offset, all_embeddings, sentence_embeddings,
                   source_embeddings, factors, weights, report, calls,
                   suspended, _instance, EMBEDDING_BACKEND, resets, returns>>

\* _instance = <the factory's instance>; return _instance
StoreInstance(t) ==
    /\ frames[t].pc = "store"
    /\ _instance' = frames[t].instance
    /\ frames' = [frames EXCEPT ![t].pc = "returned"]
    /\ returns' = returns \cup {ReturnOf(t, frames[t].instance)}
    /\ UNCHANGED <<inputs, pc, retrieval_score, sentences, filtered_chunks,
                   offset, all_embeddings, sentence_embeddings,
                   source_embeddings, factors, weights, report, calls,
                   suspended, EMBEDDING_BACKEND, resets, invoked>>

\* reset_embedding_provider(), by the test or the operator
ResetEmbeddingProvider ==
    /\ resets < MaxResets
    /\ _instance' = "None"
    /\ resets' = resets + 1
    /\ UNCHANGED <<inputs, pc, retrieval_score, sentences, filtered_chunks,
                   offset, all_embeddings, sentence_embeddings,
                   source_embeddings, factors, weights, report, calls,
                   suspended, EMBEDDING_BACKEND, frames, invoked, returns>>

\* No analyze_hallucination call runs; the factory is as the import leaves it
FactoryInit ==
    /\ EMBEDDING_BACKEND \in Backends
    /\ frames = [t \in Threads |-> [pc |-> "idle", from |-> 0, instance |-> "None", n |-> 0]]
    /\ resets = 0
    /\ invoked = <<>>
    /\ returns = {}
    /\ _instance = "None"
    /\ config = DefaultConfig
    /\ response = <<>>
    /\ source_chunks = <<>>
    /\ query = <<>>
    /\ provider = <<>>
    /\ pc = "returned"
    /\ retrieval_score = 0
    /\ sentences = <<>>
    /\ filtered_chunks = <<>>
    /\ offset = 0
    /\ all_embeddings = <<>>
    /\ sentence_embeddings = <<>>
    /\ source_embeddings = <<>>
    /\ factors = <<>>
    /\ weights = <<>>
    /\ report = <<>>
    /\ calls = <<>>
    /\ suspended = <<>>

FactoryNext ==
    \/ \E t \in Threads :
           \/ Enter(t)
           \/ CheckInstance(t)
           \/ LookupBackend(t)
           \/ InvokeFactory(t)
           \/ StoreInstance(t)
    \/ ResetEmbeddingProvider

FactorySpec == FactoryInit /\ [][FactoryNext]_vars

\* ------------------------------------------------------------------------
\* Properties of one call
\* ------------------------------------------------------------------------

\* The call has returned its report
Returned == pc = "returned"

\* A score, in thousandths of a point, lies in [0, 100]
InBounds(x) == 0 <= x /\ x <= 100 * One

RECURSIVE Flatten(_)
Flatten(seqs) ==
    IF seqs = <<>> THEN <<>> ELSE seqs[1] \o Flatten(Tail(seqs))

\* The texts passed to embed_texts so far by the embedding step p, in order
Requested(p) ==
    LET of_p == SelectSeq(calls, LAMBDA c : c.of = p)
    IN  Flatten([k \in 1..Len(of_p) |-> of_p[k].texts])

IsPrefix(a, b) == Len(a) <= Len(b) /\ a = SubSeq(b, 1, Len(a))

\* The largest similarity of sentence i to the embedded (pre-filtered) chunks
BestSimAt(i) ==
    LET sims == {Similarity(sentence_embeddings[i], source_embeddings[j]) :
                    j \in 1..Len(source_embeddings)}
    IN  CHOOSE x \in sims : \A y \in sims : y <= x

\* C1: in the returned report the four factor scores, the overall score and
\* every detail's grounding score lie in [0, 100], whatever the chunks'
\* similarities and the embeddings are.
C1_ScoresWithinBounds ==
    Returned =>
        LET r == report[1]
        IN  /\ InBounds(r.retrieval_confidence)
            /\ InBounds(r.response_grounding)
            /\ InBounds(r.numerical_fidelity)
            /\ InBounds(r.entity_consistency)
            /\ InBounds(r.overall_score)
            /\ \A i \in 1..Len(r.sentence_details) :
                   InBounds(r.sentence_details[i].grounding_score)

\* The answer has no qualifying sentence or no chunk was supplied
NothingToGround == SplitSentences(response) = <<>> \/ source_chunks = <<>>

\* C2: when the answer has no qualifying sentence or the chunk list is
\* empty, the call never reaches the embedding provider (and so cannot fail
\* there), and its report has response grounding 0, no details and no
\* flagged claims.
C2_NoCallOnEmpty ==
    NothingToGround =>
        /\ calls = <<>>
        /\ pc \notin {"embed_sentences", "embed_sources", "raised"}
        /\ Returned =>
               /\ report[1].response_grounding = 0
               /\ report[1].sentence_details = <<>>
               /\ report[1].flagged_claims = <<>>

C2_EmptyAnswerReturned ==
    /\ Returned
    /\ response = <<>>
    /\ source_chunks # <<>>
    /\ calls = <<>>
    /\ report[1].response_grounding = 0

\* C3: the texts requested from the provider are, step by step, a prefix of
\* the texts to embed, so no batch is requested twice; once a provider call
\* has raised, the call has failed: there is no report, and no step (no
\* further provider call in particular) follows.
C3_FailureEndsTheCall ==
    /\ IsPrefix(Requested("embed_sentences"), sentences)
    /\ IsPrefix(Requested("embed_sources"),
                [i \in 1..Len(filtered_chunks) |-> filtered_chunks[i].text])
    /\ pc = "raised" =>
           /\ report = <<>>
           /\ factors = <<>>
           /\ calls # <<>>
           /\ ~ENABLED Next

C3_RaisedAfterEarlierBatches ==
    /\ pc = "raised"
    /\ Len(calls) >= 3
    /\ report = <<>>

\* C4: the flagged claims are the sentences of the details that are not
\* grounded, in the details' order, cut to the first ten.
C4_FlaggedAreFirstTenUngrounded ==
    Returned =>
        LET r == report[1]
            ungrounded == SelectSeq(r.sentence_details,
                                    LAMBDA d : ~d.is_grounded)
        IN  /\ Len(r.flagged_claims) = Min(Len(ungrounded), 10)
            /\ \A k \in 1..Len(r.flagged_claims) :
                   r.flagged_claims[k] = ungrounded[k].sentence

C4_FifteenUngroundedFlagTen ==
    /\ Returned
    /\ Len(report[1].sentence_details) = 15
    /\ \A i \in 1..15 : ~report[1].sentence_details[i].is_grounded
    /\ Len(report[1].flagged_claims) = 10

\* C5: a sentence is grounded exactly when its best similarity over the
\* pre-filtered chunks is strictly greater than the grounding threshold.
C5_GroundedIffAboveThreshold ==
    Returned =>
        \A i \in 1..Len(report[1].sentence_details) :
            report[1].sentence_details[i].is_grounded
                <=> BestSimAt(i) > config.GROUNDING_THRESHOLD

C5_AtThresholdNotGrounded ==
    /\ Returned
    /\ \E i \in 1..Len(report[1].sentence_details) :
           /\ BestSimAt(i) = config.GROUNDING_THRESHOLD
           /\ ~report[1].sentence_details[i].is_grounded

\* Every sentence's embedding is the embedding of a chunk of the supplied list
MatchInSuppliedList ==
    \A i \in 1..Len(sentences) :
        \E j \in 1..Len(source_chunks) :
            provider[sentences[i]] = provider[source_chunks[j].text]

\* Every sentence's embedding is the embedding, not the zero vector, of a
\* chunk that the pre-filter kept
MatchInKeptChunks ==
    \A i \in 1..Len(sentences) :
        /\ Norm(sentence_embeddings[i]) # 0
        /\ \E j \in 1..Len(filtered_chunks) :
               sentence_embeddings[i] = source_embeddings[j]

AllGroundedAtFullScore ==
    /\ report[1].response_grounding = 100 * One
    /\ \A i \in 1..Len(report[1].sentence_details) :
           report[1].sentence_details[i].is_grounded

\* C6, as the specification states it: when every qualifying sentence's
\* embedding equals the embedding of some chunk of the supplied list, the
\* response grounding is 100 and every sentence is grounded.
C6_PerfectMatchInSuppliedList ==
    (Returned /\ sentences # <<>> /\ MatchInSuppliedList)
        => AllGroundedAtFullScore

\* C6, amended: when every qualifying sentence's embedding is not the zero
\* vector and equals the embedding of some chunk that the pre-filter kept,
\* and the grounding threshold is below 1, the response grounding is 100 and
\* every sentence is grounded.
C6_PerfectMatchInKeptChunks ==
    (/\ Returned
     /\ sentences # <<>>
     /\ source_chunks # <<>>
     /\ config.GROUNDING_THRESHOLD < One
     /\ MatchInKeptChunks)
        => AllGroundedAtFullScore

C6_MatchSurvivesPrefilter ==
    /\ Returned
    /\ Len(sentences) >= 2
    /\ Len(filtered_chunks) < Len(source_chunks)
    /\ MatchInKeptChunks
    /\ \E i, j \in 1..Len(source_embeddings) :
           source_embeddings[i] # source_embeddings[j]
    /\ AllGroundedAtFullScore

\* The four factor scores of the call, before rounding
FactorScores ==
    {factors[1].retrieval, factors[1].grounding,
     factors[1].numerical, factors[1].entity}

\* The weighted sum of the call's factor scores under its weights, in
\* hundredths of a thousandth of a point
RawWeightedSum ==
    factors[1].retrieval * weights[1].retrieval_confidence
      + factors[1].grounding * weights[1].response_grounding
      + factors[1].numerical * weights[1].numerical_fidelity
      + factors[1].entity * weights[1].entity_consistency

\* The four weights of a profile are positive and sum to 1
IsConvexProfile(w) ==
    /\ DOMAIN w = {"retrieval_confidence", "response_grounding",
                   "numerical_fidelity", "entity_consistency"}
    /\ \A k \in DOMAIN w : w[k] > 0
    /\ w.retrieval_confidence + w.response_grounding
         + w.numerical_fidelity + w.entity_consistency = 100

\* C7: both weight profiles are positive and sum to 1; the overall score is
\* the weighted sum of the four unrounded factor scores under the call's
\* profile, clamped to [0, 100] and rounded to one decimal, and the
\* unclamped sum lies between the smallest and the largest factor score.
C7_OverallIsClampedConvexSum ==
    /\ IsConvexProfile(HALLUCINATION_WEIGHTS)
    /\ IsConvexProfile(HALLUCINATION_VOLUME_WEIGHTS)
    /\ Returned =>
           /\ weights[1] \in {HALLUCINATION_WEIGHTS, HALLUCINATION_VOLUME_WEIGHTS}
           /\ report[1].overall_score =
                  Round1(Min(100 * One, Max(0, RDiv(RawWeightedSum, 100))))
           /\ \E lo, hi \in FactorScores :
                  /\ \A x \in FactorScores : lo <= x /\ x <= hi
                  /\ 100 * lo <= RawWeightedSum
                  /\ RawWeightedSum <= 100 * hi

C7_FourDifferentFactors ==
    /\ Returned
    /\ Cardinality(FactorScores) = 4
    /\ \A x \in FactorScores : InBounds(x) /\ report[1].overall_score # Round1(x)

\* C8: the rating is low, medium or high, and it is low exactly when the
\* reported overall score is at least 80, medium exactly when it is at least
\* 50 and below 80, high exactly when it is below 50.
C8_RatingFromOverall ==
    Returned =>
        LET r == report[1]
        IN  /\ r.rating \in {"low", "medium", "high"}
            /\ r.rating = "low" <=> r.overall_score >= 80 * One
            /\ r.rating = "medium" <=>
                   (50 * One <= r.overall_score /\ r.overall_score < 80 * One)
            /\ r.rating = "high" <=> r.overall_score < 50 * One

C8_EightyIsLow ==
    /\ Returned
    /\ report[1].overall_score = 80 * One
    /\ report[1].rating = "low"

\* C9: the call composes with the high-volume weights exactly when the
\* number of supplied chunks is at least the volume threshold, with the
\* standard weights otherwise; the two profiles differ.
C9_VolumeProfileFromThreshold ==
    /\ HALLUCINATION_VOLUME_WEIGHTS # HALLUCINATION_WEIGHTS
    /\ Returned =>
           /\ Len(source_chunks) >= config.VOLUME_THRESHOLD
                  <=> weights[1] = HALLUCINATION_VOLUME_WEIGHTS
           /\ Len(source_chunks) < config.VOLUME_THRESHOLD
                  <=> weights[1] = HALLUCINATION_WEIGHTS

C9_FiftyChunksHighVolume ==
    /\ Returned
    /\ config = DefaultConfig
    /\ Len(source_chunks) = 50
    /\ weights[1] = HALLUCINATION_VOLUME_WEIGHTS
    /\ report[1].overall_score # ClampRound(WeightedSum(factors[1], HALLUCINATION_WEIGHTS))

\* C10: a call with at least one chunk and at least one qualifying sentence
\* that gets past the embedding has passed min(n, MAX_GROUNDING_CHUNKS)
\* chunk texts to the provider, and never more before that.
C10_SourceTextsCapped ==
    (sentences # <<>> /\ source_chunks # <<>>) =>
        LET cap == Min(Len(source_chunks), config.MAX_GROUNDING_CHUNKS)
        IN  /\ Len(Requested("embed_sources")) <= cap
            /\ pc \in {"factors", "returned"} =>
                   Len(Requested("embed_sources")) = cap

C10_TwentyOfTwentyOne ==
    /\ Returned
    /\ config.MAX_GROUNDING_CHUNKS = 20
    /\ Len(source_chunks) = 21
    /\ Len(Requested("embed_sources")) = 20

\* The caps at which the pre-filter is looked at for the call's chunk list
PrefilterCaps ==
    {m \in {0, 1, 2, config.MAX_GROUNDING_CHUNKS, Len(source_chunks) - 1,
            Len(source_chunks), Len(source_chunks) + 1} : m >= 0}

\* out has min(max_chunks, len(chunks)) items, each an unchanged chunk of
\* the input, none more often than the input holds it
IsSelectionOf(out, chunks, max_chunks) ==
    /\ Len(out) = Min(max_chunks, Len(chunks))
    /\ \A k \in 1..Len(out) :
           /\ \E i \in 1..Len(chunks) : out[k] = chunks[i]
           /\ Count(out, out[k]) <= Count(chunks, out[k])

\* C11: the pre-filter returns min(max_chunks, len(chunks)) items, each one
\* a chunk of the input with its fields unchanged, and no input position
\* twice; so does the list that the call keeps.
C11_PrefilterSelects ==
    /\ pc = "call" =>
           \A m \in PrefilterCaps :
               IsSelectionOf(TfidfPrefilter(response, source_chunks, m),
                             source_chunks, m)
    /\ pc \in {"embed_sentences", "embed_sources"} =>
           IsSelectionOf(filtered_chunks, source_chunks,
                         config.MAX_GROUNDING_CHUNKS)

C11_PrefilterCutsAndReorders ==
    /\ pc = "embed_sentences"
    /\ Len(filtered_chunks) = config.MAX_GROUNDING_CHUNKS
    /\ Len(filtered_chunks) < Len(source_chunks)
    /\ filtered_chunks # SubSeq(source_chunks, 1, Len(filtered_chunks))

\* The calls of the embedding step p, in order
CallsOf(p) == SelectSeq(calls, LAMBDA c : c.of = p)

\* What _batched_embed(texts, batch_size) has done at step p: its calls so
\* far are the consecutive slices of at most batch_size texts, in order;
\* once it has returned (done) they are ceil(len(texts) / batch_size) calls
\* and result holds the provider's vector of each text, in the texts' order.
BatchedEmbedContract(p, texts, batch_size, done, result) ==
    LET cs == CallsOf(p)
    IN  /\ \A k \in 1..Len(cs) :
               /\ cs[k].texts = SubSeq(texts, (k - 1) * batch_size + 1,
                                       Min(k * batch_size, Len(texts)))
               /\ Len(cs[k].texts) \in 1..batch_size
        /\ done =>
               /\ Len(cs) = (Len(texts) + batch_size - 1) \div batch_size
               /\ Flatten([k \in 1..Len(cs) |-> cs[k].texts]) = texts
               /\ Len(result) = Len(texts)
               /\ \A i \in 1..Len(texts) : result[i] = provider[texts[i]]
               /\ texts = <<>> => (cs = <<>> /\ result = <<>>)

\* C12: _batched_embed calls the provider ceil(len(texts) / batch_size) times
\* on consecutive slices of at most batch_size texts and returns the
\* provider's vectors in the order of the texts; on no texts it returns the
\* empty list without a call.
C12_BatchedEmbedCoversTextsOnce ==
    /\ BatchedEmbedContract("embed_sentences", sentences,
                            config.EMBEDDING_BATCH_SIZE,
                            pc \in {"embed_sources", "factors", "returned"},
                            sentence_embeddings)
    /\ BatchedEmbedContract("embed_sources",
                            [i \in 1..Len(filtered_chunks) |->
                                filtered_chunks[i].text],
                            config.EMBEDDING_BATCH_SIZE,
                            pc \in {"factors", "returned"},
                            source_embeddings)

C12_ThreeTextsInTwoBatches ==
    /\ pc = "factors"
    /\ Len(sentences) = 3
    /\ config.EMBEDDING_BATCH_SIZE = 2
    /\ Len(CallsOf("embed_sentences")) = 2
    /\ sentence_embeddings[1] # sentence_embeddings[3]
    /\ filtered_chunks = <<>>
    /\ CallsOf("embed_sources") = <<>>

\* C13: for the answer "The premium is $25,000." the numerical fidelity is
\* 100 when the source text contains "$25,000" and 0 when the source text
\* contains no number.
C13_PremiumRoundTrip ==
    (Returned /\ response = PremiumSentence) =>
        LET source_text == BuildSourceContext(source_chunks)
        IN  /\ Contains(source_text, PremiumText) =>
                   factors[1].numerical = 100 * One
            /\ ExtractNumbers(source_text) = {} =>
                   factors[1].numerical = 0

\* The provider calls of a call with the answer and the chunks, from its
\* arguments and the configuration
CallsAlone(answer, chunks, cfg) ==
    IF SplitSentences(answer) = <<>> \/ chunks = <<>> THEN <<>>
    ELSE ProviderCalls(SplitSentences(answer),
                       TfidfPrefilter(answer, chunks, cfg.MAX_GROUNDING_CHUNKS),
                       cfg.EMBEDDING_BATCH_SIZE)

\* C14: the query has no influence on the result. The report of a call that
\* returns, and the provider calls of a call that returns or fails, are those
\* that the answer, the chunk list, the configuration and the provider's
\* behaviour determine, whatever the query is: so two calls that differ in
\* the query alone return equal reports and make the same provider calls.
C14_QueryHasNoInfluence ==
    /\ Returned =>
           [report |-> report[1], calls |-> calls] =
               AnalyzeHallucination(response, source_chunks, config, provider)
    /\ pc = "raised" =>
           IsPrefix(calls, CallsAlone(response, source_chunks, config))

\* A call with a query whose words are another chunk's than the answer's
\* has pre-filtered the chunks, embedded them and returned.
C14_ReturnedWithTaxQuery ==
    /\ Returned
    /\ query = TaxQuery
    /\ Len(source_chunks) > Len(filtered_chunks)
    /\ Len(calls) >= 2
    /\ report[1].sentence_details # <<>>

\* The texts that the invocation with the locals f is embedding
TextsOf(f) ==
    IF f.pc = "embed_sentences" THEN f.sentences
    ELSE [j \in 1..Len(f.filtered_chunks) |-> f.filtered_chunks[j].text]

\* The invocation with the locals f stands where it would stand alone: the
\* embeddings it has gathered are those of its own texts, its provider calls
\* are the first of the calls it makes alone and, once it has returned, its
\* report is the report it returns alone.
AsIfAlone(f) ==
    /\ f.pc \in {"embed_sentences", "embed_sources"} =>
           f.all_embeddings = [k \in 1..f.offset |-> provider[TextsOf(f)[k]]]
    /\ IsPrefix(f.calls, CallsAlone(f.response, f.source_chunks, config))
    /\ f.pc = "returned" =>
           [report |-> f.report[1], calls |-> f.calls] =
               AnalyzeHallucination(f.response, f.source_chunks, config,
                                    provider)

C16_InputsNotModified ==
    [][/\ source_chunks' = source_chunks
       /\ response' = response
       /\ query' = query
       /\ pc # "call" => filtered_chunks' = filtered_chunks]_vars

\* A call has returned whose pre-filter kept a selection of the chunks in
\* another order than the caller's.
C16_ReturnedAfterReordering ==
    /\ Returned
    /\ Len(filtered_chunks) < Len(source_chunks)
    /\ filtered_chunks # Take(source_chunks, Len(filtered_chunks))
    /\ Len(calls) >= 2

\* The chunk list with the chunks at ranks i and j exchanged
Exchange(chunks, i, j) ==
    [k \in 1..Len(chunks) |->
        IF k = i THEN chunks[j] ELSE IF k = j THEN chunks[i] ELSE chunks[k]]

\* 100 x (sum of similarity_i / (i + 1)) / (sum of 1 / (i + 1)) over the
\* chunk list, in thousandths of a point
HarmonicAverage(chunks) ==
    LET n == Len(chunks)
    IN  100 * RDiv(SumSeq([i \in 1..n |-> SimilarityOf(chunks[i]) * RankWeight(i)]),
                   SumSeq([i \in 1..n |-> RankWeight(i)]))

\* C17: the retrieval-confidence factor is the harmonic-rank weighted average
\* of the similarities of the full chunk list (a missing similarity counting
\* as 0), times 100 and clamped to [0, 100]; it is 0 for an empty chunk list;
\* and exchanging two chunks so that the larger similarity comes at the
\* earlier rank never lowers it.
C17_RetrievalConfidenceFormula ==
    Returned =>
        /\ source_chunks = <<>> => factors[1].retrieval = 0
        /\ source_chunks # <<>> =>
               factors[1].retrieval =
                   Max(0, Min(100 * One, HarmonicAverage(source_chunks)))
        /\ \A i \in 1..Len(source_chunks), j \in 1..Len(source_chunks) :
               (i < j /\ SimilarityOf(source_chunks[i])
                             < SimilarityOf(source_chunks[j])) =>
                   ComputeRetrievalConfidence(Exchange(source_chunks, i, j))
                       >= factors[1].retrieval

\* C18: each sentence's grounding score is min(1, bestSim / 0.8) x 100, that
\* is 100 from a best similarity of 0.8 on and 125 x bestSim below it, and
\* the grounding score stored in the sentence's detail is this value rounded
\* to one decimal.
C18_SentenceScoreFromBestSim ==
    Returned =>
        \A i \in 1..Len(report[1].sentence_details) :
            LET best_sim == BestSimAt(i)
                score == IF best_sim >= FULL_SCORE_SIMILARITY THEN 100 * One
                         ELSE 125 * best_sim
            IN  report[1].sentence_details[i].grounding_score = Round1(score)

\* A report with a sentence of best similarity 0.8 exactly, stored with 100,
\* and a sentence of best similarity 0.25, whose score 31.25 is stored as
\* 31.2.
C18_FullScoreAndRoundedScore ==
    /\ Returned
    /\ \E i \in 1..Len(report[1].sentence_details) :
           /\ BestSimAt(i) = FULL_SCORE_SIMILARITY
           /\ report[1].sentence_details[i].grounding_score = 100 * One
    /\ \E i \in 1..Len(report[1].sentence_details) :
           /\ 125 * BestSimAt(i) = 31250
           /\ report[1].sentence_details[i].grounding_score = 31200

\* The unrounded score of sentence i: min(1, bestSim / 0.8) x 100
UnroundedScoreAt(i) ==
    IF BestSimAt(i) >= FULL_SCORE_SIMILARITY THEN 100 * One
    ELSE 125 * BestSimAt(i)

\* C19: with at least one qualifying sentence and one chunk, the grounding
\* factor is the arithmetic mean of the unrounded scores of all qualifying
\* sentences, and the sentence details hold one entry for each qualifying
\* sentence, in the order of the sentences in the answer, with the sentence
\* cut to at most 200 characters.
C19_MeanAndOneDetailPerSentence ==
    (Returned /\ ~NothingToGround) =>
        LET qualifying == SplitSentences(response)
            details == report[1].sentence_details
            n == Len(qualifying)
        IN  /\ factors[1].grounding =
                   RDiv(SumSeq([i \in 1..n |-> UnroundedScoreAt(i)]), n)
            /\ Len(details) = n
            /\ \A i \in 1..n :
                   /\ details[i].sentence =
                          SubSeq(qualifying[i], 1,
                                 Min(SENTENCE_DISPLAY_LENGTH, Len(qualifying[i])))
                   /\ Len(details[i].sentence) <= SENTENCE_DISPLAY_LENGTH

\* A report of two sentences, the first longer than 200 characters and shown
\* cut, the second whole, whose rounded scores have another mean than the
\* scores.
C19_CutSentenceAndUnroundedMean ==
    /\ Returned
    /\ Len(report[1].sentence_details) = 2
    /\ Len(SplitSentences(response)[1]) > SENTENCE_DISPLAY_LENGTH
    /\ Len(report[1].sentence_details[1].sentence) = SENTENCE_DISPLAY_LENGTH
    /\ report[1].sentence_details[2].sentence = SentenceB
    /\ 2 * factors[1].grounding #
           report[1].sentence_details[1].grounding_score
           + report[1].sentence_details[2].grounding_score

\* The similarity of sentence i to the j-th chunk of the pre-filter's output
SimilarityAt(i, j) == Similarity(sentence_embeddings[i], source_embeddings[j])

\* The chunks of the pre-filter's output whose similarity to sentence i is
\* the largest of the row, by their index
BestChunksAt(i) ==
    {j \in 1..Len(filtered_chunks) : SimilarityAt(i, j) = BestSimAt(i)}

\* C20: the best source of a sentence names a chunk whose similarity to the
\* sentence is the largest of the row, and among several such chunks the one
\* with the lowest index in the pre-filter's output order.
C20_BestSourceIsFirstOfBest ==
    Returned =>
        \A i \in 1..Len(report[1].sentence_details) :
            LET first == CHOOSE j \in BestChunksAt(i) :
                             \A k \in BestChunksAt(i) : j <= k
            IN  report[1].sentence_details[i].best_source =
                    BestSource(filtered_chunks[first])

\* The pre-filter has put the third chunk before the first, both are as
\* similar as can be to the sentence, and the best source is the third chunk,
\* not the first.
C20_TieGoesToPrefilterOrder ==
    /\ Returned
    /\ Len(source_chunks) = 3
    /\ filtered_chunks = <<source_chunks[3], source_chunks[1]>>
    /\ Len(report[1].sentence_details) >= 1
    /\ BestChunksAt(1) = {1, 2}
    /\ report[1].sentence_details[1].best_source = BestSource(source_chunks[3])
    /\ BestSource(source_chunks[3]) # BestSource(source_chunks[1])

\* The nested-loop grounding of the call's sentences and of all its chunks,
\* with the embeddings the provider gives them
NestedLoopOfCall ==
    NestedLoopGrounding(
        sentences,
        [i \in 1..Len(sentences) |-> provider[sentences[i]]],
        source_chunks,
        [j \in 1..Len(source_chunks) |-> provider[source_chunks[j].text]])

\* The call is one on which the pre-filter keeps every chunk and the
\* threshold is the nested loop's.
ComparableWithNestedLoop ==
    /\ Returned
    /\ ~NothingToGround
    /\ Len(source_chunks) <= config.MAX_GROUNDING_CHUNKS
    /\ config.GROUNDING_THRESHOLD = NESTED_LOOP_THRESHOLD

\* C21: for an answer and at most maxGroundingChunks chunks, the vectorized
\* grounding gives each sentence the same detail (is_grounded, grounding
\* score, best source) and the call the same factor score as the nested-loop
\* computation, whatever the embeddings are.
C21_VectorizedEqualsNestedLoop ==
    ComparableWithNestedLoop =>
        /\ report[1].sentence_details = NestedLoopOfCall.details
        /\ factors[1].grounding = NestedLoopOfCall.avg_score

\* The pre-filter of the call has scored the chunks: there are more chunks
\* than the cap, the answer has tokens, and the pre-filter has just run.
ScoringApplied ==
    /\ pc = "embed_sentences"
    /\ calls = <<>>
    /\ Len(source_chunks) > config.MAX_GROUNDING_CHUNKS
    /\ Tokenize(response) # <<>>

\* The rank in source_chunks of the k-th chunk that the pre-filter kept
RankOfKept(k) ==
    CHOOSE i \in 1..Len(source_chunks) : source_chunks[i] = filtered_chunks[k]

\* Chunk i goes before chunk j: its score is larger, or the scores are equal
\* and it comes first in the input.
GoesBefore(score, i, j) ==
    score[i] > score[j] \/ (score[i] = score[j] /\ i < j)

\* C22: when the pre-filter scores, the chunks it returns are in descending
\* score order, chunks of equal score in their input order, and they go before
\* every chunk that is dropped; so if all scores are equal the result is the
\* first maxChunks chunks in input order.
C22_DescendingAndStable ==
    ScoringApplied =>
        LET score == ChunkScores(response, source_chunks)
            n == Len(filtered_chunks)
            rank == [k \in 1..n |-> RankOfKept(k)] \o <<>>
        IN  /\ n = config.MAX_GROUNDING_CHUNKS
            /\ \A k \in 1..n, l \in 1..n :
                   k < l => GoesBefore(score, rank[k], rank[l])
            /\ \A j \in 1..Len(source_chunks) :
                   (\A k \in 1..n : rank[k] # j) =>
                       GoesBefore(score, rank[n], j)
            /\ (\A i \in 1..Len(score) : score[i] = score[1]) =>
                   filtered_chunks = Take(source_chunks, n)

\* The pre-filter has put the third chunk, of the largest score, first and
\* then, of the two chunks of equal score, the one that comes first.
C22_LargestThenFirstOfEqual ==
    /\ ScoringApplied
    /\ Len(source_chunks) = 3
    /\ filtered_chunks = <<source_chunks[3], source_chunks[1]>>
    /\ LET score == ChunkScores(response, source_chunks)
       IN  score[3] > score[1] /\ score[1] = score[2]

\* out is what the pre-filter returns without scoring: every chunk in the
\* original order when there are at most max_chunks, and the first max_chunks
\* chunks in the original order when there are more and the answer has no
\* token.
UnscoredResult(out, max_chunks) ==
    /\ Len(source_chunks) <= max_chunks => out = source_chunks
    /\ (Len(source_chunks) > max_chunks /\ Tokenize(response) = <<>>) =>
           out = SubSeq(source_chunks, 1, max_chunks)

\* C23: with at most maxChunks chunks the pre-filter returns all chunks in
\* their original order; with more chunks and an answer that tokenizes to no
\* token it returns the first maxChunks chunks in their original order. So
\* does the list that the call keeps.
C23_UnscoredCases ==
    /\ pc = "call" =>
           \A m \in PrefilterCaps :
               UnscoredResult(TfidfPrefilter(response, source_chunks, m), m)
    /\ pc \in {"embed_sentences", "embed_sources"} =>
           UnscoredResult(filtered_chunks, config.MAX_GROUNDING_CHUNKS)

\* A call whose answer is a sentence of stopwords keeps the first chunks of a
\* list longer than the cap.
C23_StopwordAnswerKeepsFirst ==
    /\ pc = "embed_sources"
    /\ response = StopSentence
    /\ Tokenize(response) = <<>>
    /\ Len(source_chunks) > config.MAX_GROUNDING_CHUNKS
    /\ filtered_chunks = SubSeq(source_chunks, 1, config.MAX_GROUNDING_CHUNKS)

\* Chunk i of source_chunks holds a token of the answer
HoldsAnswerToken(i) ==
    \E t \in Range(Tokenize(response)) :
        Count(Tokenize(source_chunks[i].text), t) > 0

\* Chunk i of source_chunks is among the chunks that the pre-filter kept
IsKept(i) == \E k \in 1..Len(filtered_chunks) : RankOfKept(k) = i

\* C24: when the pre-filter scores, no score is negative and every chunk that
\* holds a token of the answer goes before every chunk that holds none; so a
\* chunk that holds a token of the answer is dropped only when maxChunks
\* chunks that hold tokens of the answer go before it.
C24_AnswerTokenChunksFirst ==
    ScoringApplied =>
        LET all == 1..Len(source_chunks)
        IN  \A score \in {ChunkScores(response, source_chunks)} :
            \A holds \in {[i \in all |-> HoldsAnswerToken(i)] \o <<>>} :
            \A place \in {[i \in all |-> SortedPlace(score, i)] \o <<>>} :
            \A kept \in {[i \in all |-> IsKept(i)] \o <<>>} :
                /\ \A i \in all : score[i] >= 0
                /\ \A i \in all, j \in all :
                       (holds[i] /\ ~holds[j]) => place[i] < place[j]
                /\ \A i \in all :
                       (holds[i] /\ ~kept[i]) =>
                           /\ Len(filtered_chunks) = config.MAX_GROUNDING_CHUNKS
                           /\ \A k \in all :
                                  kept[k] => (holds[k] /\ place[k] < place[i])

\* The pre-filter has kept a chunk that holds a token of the answer, behind
\* an earlier chunk that holds none and is dropped, and has dropped another
\* chunk that holds a token of the answer.
C24_TokenChunkKeptOtherDropped ==
    /\ ScoringApplied
    /\ \E i \in 1..Len(source_chunks), j \in 1..Len(source_chunks) :
           /\ j < i
           /\ HoldsAnswerToken(i) /\ IsKept(i)
           /\ ~HoldsAnswerToken(j) /\ ~IsKept(j)
    /\ \E i \in 1..Len(source_chunks) : HoldsAnswerToken(i) /\ ~IsKept(i)

\* The retrieval, numerical and entity factors and the weight profile that
\* the answer and a chunk list give
FactorsBesideGrounding(chunks) ==
    LET source_text == BuildSourceContext(chunks)
    IN  [retrieval |-> ComputeRetrievalConfidence(chunks),
         numerical |-> ComputeNumericalFidelity(response, source_text),
         entity |-> ComputeEntityConsistency(response, source_text),
         weights |-> SelectWeights(Len(chunks), config.VOLUME_THRESHOLD)]

\* The retrieval, numerical and entity factors and the weight profile of the
\* call
FactorsBesideGroundingOfCall ==
    [retrieval |-> factors[1].retrieval,
     numerical |-> factors[1].numerical,
     entity |-> factors[1].entity,
     weights |-> weights[1]]

\* C25: the pre-filter affects the grounding factor only. The retrieval,
\* numerical and entity factors and the weight profile of a call that returns
\* are those of the full chunk list, whatever chunks the pre-filter has kept,
\* and the report shows them rounded.
C25_OtherFactorsFromFullList ==
    Returned =>
        /\ FactorsBesideGroundingOfCall = FactorsBesideGrounding(source_chunks)
        /\ report[1].retrieval_confidence = Round1(factors[1].retrieval)
        /\ report[1].numerical_fidelity = Round1(factors[1].numerical)
        /\ report[1].entity_consistency = Round1(factors[1].entity)

\* A call has returned whose pre-filter dropped a chunk, and the kept chunks
\* alone give another retrieval factor, another numerical factor and another
\* weight profile than the call has.
C25_ReturnedWhereKeptChunksDiffer ==
    /\ Returned
    /\ Len(filtered_chunks) < Len(source_chunks)
    /\ LET kept == FactorsBesideGrounding(filtered_chunks)
       IN  /\ kept.retrieval # factors[1].retrieval
           /\ kept.numerical # factors[1].numerical
           /\ kept.weights # weights[1]

\* The number without its commas and dollar signs
WithoutCommaAndDollar(num) == SelectSeq(num, LAMBDA c : c # "," /\ c # "$")

\* The number of the answer is found in the source: without commas and
\* dollar signs it is a part of a number of the source text that is stripped
\* the same way, or as it stands it is a part of the source text.
NumberIsMatched(num, source_text, source_numbers) ==
    \/ \E sn \in source_numbers :
           Contains(WithoutCommaAndDollar(sn), WithoutCommaAndDollar(num))
    \/ Contains(source_text, num)

\* The numbers of the answer that are found in the text of all the chunks
MatchedNumbers ==
    LET found ==
            {<<source_text, ExtractNumbers(source_text)>> :
                source_text \in {BuildSourceContext(source_chunks)}}
    IN  {num \in ExtractNumbers(response) :
            \E f \in found : NumberIsMatched(num, f[1], f[2])}

\* C26: the numerical fidelity of a call that returns is 100 when the answer
\* has no number, and else 100 times the share of the answer's distinct
\* numbers that are found in the text of all the chunks.
C26_NumericalFidelityFormula ==
    Returned =>
        LET total == Cardinality(ExtractNumbers(response))
        IN  /\ total = 0 => factors[1].numerical = 100 * One
            /\ total > 0 =>
                   factors[1].numerical
                       = RDiv(Cardinality(MatchedNumbers) * 100 * One, total)
            /\ report[1].numerical_fidelity = Round1(factors[1].numerical)

\* A call has returned whose answer has a number that is found only without
\* its comma and dollar sign, and a number that is not found.
C26_MatchedWithoutSignOnly ==
    /\ Returned
    /\ LET source_text == BuildSourceContext(source_chunks)
       IN  /\ \E num \in MatchedNumbers : ~Contains(source_text, num)
           /\ ExtractNumbers(response) \ MatchedNumbers # {}
    /\ factors[1].numerical = 75 * One

\* The entities of the answer whose lower-case form is a part of the
\* lower-case text of all the chunks
MatchedEntities ==
    {e \in ExtractEntities(response) :
        \E source_lower \in {Lower(BuildSourceContext(source_chunks)) \o <<>>} :
            Contains(source_lower, Lower(e))}

\* C27: the entity consistency of a call that returns is 100 when the answer
\* has no entity, and else 100 times the share of the answer's distinct
\* entities that are found, whatever their case, in the text of all the
\* chunks; it is 0 when that text is empty and the answer has an entity.
C27_EntityConsistencyFormula ==
    Returned =>
        LET total == Cardinality(ExtractEntities(response))
        IN  /\ total = 0 => factors[1].entity = 100 * One
            /\ total > 0 =>
                   factors[1].entity
                       = RDiv(Cardinality(MatchedEntities) * 100 * One, total)
            /\ (total > 0 /\ BuildSourceContext(source_chunks) = <<>>) =>
                   factors[1].entity = 0
            /\ report[1].entity_consistency = Round1(factors[1].entity)

\* A call has returned whose answer has an entity that the source text holds
\* in another case only, and an entity that the source text does not hold.
C27_MatchedInOtherCaseOnly ==
    /\ Returned
    /\ \E e \in MatchedEntities :
           ~Contains(BuildSourceContext(source_chunks), e)
    /\ ExtractEntities(response) \ MatchedEntities # {}
    /\ factors[1].entity = 50 * One

\* The zero vector
IsZeroVector(v) == \A k \in 1..Len(v) : v[k] = 0

\* The best source of sentence i is the j-th chunk of the pre-filter's output
BestSourceIs(i, j) ==
    report[1].sentence_details[i].best_source = BestSource(filtered_chunks[j])

\* C28: a zero embedding of a sentence or of a chunk raises no error: a call
\* fails in the provider only, before it has the embeddings of the chunks. In
\* a call that returns every similarity with that embedding is 0, a sentence of
\* zero embedding has the grounding score 0 and is not grounded, and a chunk
\* of zero embedding is the best source of a sentence only when no chunk has
\* a positive similarity to the sentence.
C28_ZeroVectorIsHarmless ==
    /\ pc = "raised" => source_embeddings = <<>>
    /\ (Returned /\ ~NothingToGround) =>
        \A i \in 1..Len(sentences) :
            /\ \A j \in 1..Len(filtered_chunks) :
                   (\/ IsZeroVector(sentence_embeddings[i])
                    \/ IsZeroVector(source_embeddings[j])) =>
                       SimilarityAt(i, j) = 0
            /\ IsZeroVector(sentence_embeddings[i]) =>
                   /\ report[1].sentence_details[i].grounding_score = 0
                   /\ ~report[1].sentence_details[i].is_grounded
            /\ \A j \in 1..Len(filtered_chunks) :
                   (IsZeroVector(source_embeddings[j]) /\ BestSourceIs(i, j)) =>
                       \A k \in 1..Len(filtered_chunks) : SimilarityAt(i, k) <= 0

\* A call has returned in which one sentence has the zero embedding, and the
\* best source of the other is a chunk of zero embedding that goes behind a
\* chunk of negative similarity.
C28_ZeroSentenceAndZeroBestSource ==
    /\ Returned
    /\ Len(sentences) = 2
    /\ Len(filtered_chunks) = 2
    /\ IsZeroVector(sentence_embeddings[1])
    /\ ~IsZeroVector(sentence_embeddings[2])
    /\ IsZeroVector(source_embeddings[2])
    /\ SimilarityAt(2, 1) < 0
    /\ BestSourceIs(2, 2)
    /\ ~BestSourceIs(2, 1)

\* ceil(a / b)
CeilingOfRatio(a, b) == (a + b - 1) \div b

\* The provider calls that a call with qualifying sentences and chunks makes
\* for its sentences, and for its chunks
SentenceCallCount ==
    CeilingOfRatio(Len(SplitSentences(response)), config.EMBEDDING_BATCH_SIZE)

SourceCallCount ==
    CeilingOfRatio(Min(Len(source_chunks), config.MAX_GROUNDING_CHUNKS),
                   config.EMBEDDING_BATCH_SIZE)

\* The texts of the chunks of the call
SourceTexts == {source_chunks[j].text : j \in 1..Len(source_chunks)}

\* C29: in a call with a qualifying sentence and a chunk every provider call
\* for sentences goes before every provider call for chunk texts, no call
\* holds both sentences and chunk texts, there are never more than
\* ceil(m / batch size) calls for the m sentences and
\* ceil(min(n, cap) / batch size) calls for the n chunks, and a call that
\* returns has made exactly that many (a call that returns without a
\* provider call has no qualifying sentence or no chunk).
C29_SentenceCallsThenSourceCalls ==
    /\ (Returned /\ calls = <<>>) => NothingToGround
    /\ calls # <<>> =>
           \A sentence_calls \in {SentenceCallCount} :
           \A source_calls \in {SourceCallCount} :
               /\ \A k \in 1..Len(calls) :
                      /\ k <= sentence_calls =>
                             /\ calls[k].of = "embed_sentences"
                             /\ Range(calls[k].texts) \subseteq Range(sentences)
                      /\ k > sentence_calls =>
                             /\ calls[k].of = "embed_sources"
                             /\ Range(calls[k].texts) \subseteq SourceTexts
                      /\ calls[k].texts # <<>>
               /\ Len(calls) <= sentence_calls + source_calls
               /\ Returned => Len(calls) = sentence_calls + source_calls

\* A call has returned after more than one provider call for its sentences
\* and more than one for its chunks, of which the pre-filter dropped one.
C29_ReturnedAfterSeveralCallsOfEach ==
    /\ Returned
    /\ Len(source_chunks) > config.MAX_GROUNDING_CHUNKS
    /\ SentenceCallCount >= 2
    /\ SourceCallCount >= 2
    /\ Len(calls) = SentenceCallCount + SourceCallCount

\* The instances that the calls which began and returned after e resets and
\* before any further reset have returned
InstancesReturnedAfter(e) ==
    {r.instance : r \in {x \in returns : x.from = e /\ x.to = e}}

\* The invocations of a factory after e resets and before any further reset
InvocationsAfter(e) == {k \in 1..Len(invoked) : invoked[k].at = e}

\* C30: between two calls of reset_embedding_provider the calls of
\* get_embedding_provider that return give one and the same instance and a
\* factory is invoked at most once, also when threads make the first calls in
\* parallel; with a backend name that is not registered every call raises,
\* no factory is invoked and nothing is cached; and the instance that a call
\* after a reset returns was made after that reset.
C30_OneInstanceBetweenResets ==
    /\ \A e \in 0..resets :
           /\ Cardinality(InstancesReturnedAfter(e)) <= 1
           /\ Cardinality(InvocationsAfter(e)) <= 1
           /\ \A k \in 1..Len(invoked) :
                  InstanceNames[k] \in InstancesReturnedAfter(e) =>
                      invoked[k].at = e
    /\ Backend \notin DOMAIN _registry =>
           /\ _instance = "None"
           /\ invoked = <<>>
           /\ returns = {}
           /\ \A t \in Threads :
                  frames[t].pc \in {"idle", "check", "lookup", "raised"}

====
